---- MODULE Spec2Model ----
(***************************************************************************)
(* Ledger balance engine of the jewellery accounts application.            *)
(*                                                                         *)
(* The customer ledger page (pages/ledger/[id].tsx) receives the vouchers  *)
(* of one customer, sorts them by transaction instant, folds them into     *)
(* ledger entries carrying running gold/KWD balances, and slices the       *)
(* lifetime ledger by a date range with an opening and a closing balance.  *)
(*                                                                         *)
(* Time.  An instant is a number of hours since the epoch (UTC).  The      *)
(* browser's time zone is `tz', local time = UTC + tz hours.  A calendar   *)
(* day is a day number; the strings the code passes around are modelled    *)
(* by the day they denote together with the rule the JavaScript Date       *)
(* constructor uses to read them:                                          *)
(*   - voucher.date is an ISO instant ("2024-01-05T00:00:00.000Z");        *)
(*   - entry.date is the output of toLocaleDateString() ("1/5/2024", the   *)
(*     en-US form), a LOCAL calendar day, read back as LOCAL midnight;     *)
(*   - dateRange.start/end come from <input type="date"> ("2024-01-05"),   *)
(*     a date-only ISO string, read as UTC midnight.                       *)
(*                                                                         *)
(* Amounts are integers (thousandths of a gram / of a dinar); the          *)
(* description and pdfUrl fields of an entry take no part in any balance   *)
(* and are left out.  The fetched list is taken in any order of dates:     *)
(* the page sorts it itself and relies on no order of the response.        *)
(***************************************************************************)
EXTENDS Integers, Sequences, FiniteSets, TLC

\* ---------------------------------------------------------------- bounds
MaxVouchers == 2        \* longest voucher list fetched
MaxDay == 2             \* voucher days and range days are 1..MaxDay
MaxAmount == 2          \* totalNet and totalKWD range over 1..MaxAmount
MaxBuilds == 2          \* runs of fetchData on one ledger page
MaxCustomers == 2       \* customers in the customers table
MaxSteps == 6           \* user actions on one voucher form before submitting

\* Browser time zones: New York (UTC-5), UTC, Kuwait (UTC+3).
TzOffsets == {-5, 0, 3}

\* dateRange.start / dateRange.end when unset (the empty string).
NoDate == 0

VoucherTypes == {"INV", "REC"}

Days == 1..MaxDay

\* Transaction instants: UTC midnight of each day (the create form sends a
\* date-only string) and one late-evening stamp on the last day (the
\* create endpoint accepts any date string).
Instants == {d * 24 : d \in Days} \cup {MaxDay * 24 + 22}

\* Sampled voucher totals: the pairs (totalNet, totalKWD) of non-zero
\* amounts that add up to MaxAmount + 1, so that the two units vary and
\* differ from each other.
Totals ==
  {[totalNet |-> a, totalKWD |-> MaxAmount + 1 - a] : a \in 1..MaxAmount}

VoucherFields ==
  {[voucherType |-> ty, date |-> t,
    totalNet |-> tot.totalNet, totalKWD |-> tot.totalKWD] :
     ty \in VoucherTypes, t \in Instants, tot \in Totals}

\* A fetched voucher; ids are unique, here the position in the response.
MkVoucher(i, f) ==
  [id |-> i, voucherType |-> f.voucherType, date |-> f.date,
   totalNet |-> f.totalNet, totalKWD |-> f.totalKWD]

\* Every response body `vouchersData.vouchers' of at most MaxVouchers
\* vouchers, in any order of dates.
VoucherLists ==
  UNION {{[i \in 1..n |-> MkVoucher(i, fs[i])] : fs \in [1..n -> VoucherFields]}
         : n \in 0..MaxVouchers}

\* Customer ids of the customers table, and the accountId of a voucher
\* whose customer is not in the table.
CustomerIds == 1..MaxCustomers
DanglingId == MaxCustomers + 1

\* Response bodies of GET /api/customers: the table in either order.
CustomerLists ==
  {[i \in 1..MaxCustomers |-> [id |-> i]],
   [i \in 1..MaxCustomers |-> [id |-> MaxCustomers + 1 - i]]}

\* A voucher of the system-wide list: the first customer's, or one whose
\* customer is missing; dated at the UTC midnight of the first or of the
\* last day.
AllVoucherFields ==
  {[voucherType |-> ty, date |-> d * 24, totalNet |-> tot.totalNet,
    totalKWD |-> tot.totalKWD, accountId |-> a] :
     ty \in VoucherTypes, d \in {1, MaxDay}, tot \in Totals,
     a \in {1, DanglingId}}

MkAllVoucher(i, f) ==
  [id |-> i, voucherType |-> f.voucherType, date |-> f.date,
   totalNet |-> f.totalNet, totalKWD |-> f.totalKWD,
   accountId |-> f.accountId]

\* Every response body of GET /api/vouchers of at most MaxVouchers
\* vouchers.
AllVoucherLists ==
  UNION {{[i \in 1..n |-> MkAllVoucher(i, fs[i])] :
            fs \in [1..n -> AllVoucherFields]}
         : n \in 0..MaxVouchers}

\* The vouchers table as the balances page meets it: at most one voucher
\* per customer, an Invoice or a Receipt late on the last day, listed by
\* customer id.
CustomerVoucherFields ==
  {[voucherType |-> "INV", date |-> MaxDay * 24 + 22,
    totalNet |-> 1, totalKWD |-> MaxAmount],
   [voucherType |-> "REC", date |-> MaxDay * 24 + 22,
    totalNet |-> MaxAmount, totalKWD |-> 1]}

RECURSIVE ConcatVouchers(_, _)
ConcatVouchers(perCustomer, n) ==
  IF n = 0 THEN <<>>
  ELSE ConcatVouchers(perCustomer, n - 1) \o perCustomer[n]

CustomerVoucherLists ==
  {ConcatVouchers(
     [c \in CustomerIds |->
        IF fs[c] = <<>> THEN <<>>
        ELSE <<[id |-> c, voucherType |-> fs[c][1].voucherType,
                date |-> fs[c][1].date, totalNet |-> fs[c][1].totalNet,
                totalKWD |-> fs[c][1].totalKWD, accountId |-> c]>>],
     MaxCustomers) :
     fs \in [CustomerIds ->
               {<<>>} \cup {<<f>> : f \in CustomerVoucherFields}]}

\* An optional row field that has never been assigned (undefined).
Undef == -1

\* Purity of a new row, and the divisor of the net-weight formula.
DefaultPurity == 999
PurityBase == 999
Percent == 100

\* What the user types into the inputs of a row.  An emptied number input
\* arrives as "" and Number("") is 0.
RowInputs ==
  [description |-> {"", "ring"},
   weight |-> {0, 10},
   purity |-> {0, 750, DefaultPurity},
   makingCharges |-> {0, 3},
   discountPercent |-> {0, 10},
   kwd |-> {0, 5}]

\* The inputs a row shows that the user can type into: making charges on
\* an Invoice; discount and kwd on a Receipt (an Invoice's kwd is disabled).
RenderedInputs(type) ==
  IF type = "INV"
  THEN {"description", "weight", "purity", "makingCharges"}
  ELSE {"description", "weight", "purity", "discountPercent", "kwd"}

\* The row a form starts with and addRow appends.  Weights after the
\* weight input are exact rationals held as integers: weightAfterDiscount
\* in units of 1/Percent, netWeight in units of 1/(PurityBase * Percent).
InitialRow ==
  [description |-> "", weight |-> 0, purity |-> DefaultPurity,
   makingCharges |-> Undef, discountPercent |-> Undef,
   weightAfterDiscount |-> Undef, netWeight |-> 0, kwd |-> 0]

\* The browsers that have the account-opening page open.
Clients == {1, 2}

\* A client that posts to the customers endpoint without the page.
DirectClient == 0

\* Account numbers are strings: a positive number stands for its decimal
\* digits, EmptyNo for "", OpaqueNo for a string parseInt makes NaN of,
\* MinusInfinityNo for "-Infinity".
EmptyNo == 0
OpaqueNo == -2
MinusInfinityNo == -3

\* The account number the page starts from when there are no customers.
FirstAccountNo == 1001

\* Account numbers a ledger page is opened for.
RouteIds == {FirstAccountNo, FirstAccountNo + 1}

\* customer state of the ledger page before a customer is set.
NoCustomer == [id |-> Undef, accountNo |-> EmptyNo]

\* error state of the ledger page when it is null.
NoError == "null"

\* voucher state of the signature page before a voucher is set.
NoVoucher == [id |-> Undef, voucherType |-> ""]

\* activeSignature when the signature modal is closed (null).
NoSignature == "null"

\* ref.current of a signature ref no mounted SignatureCanvas is attached
\* to (null).
NoCanvas == "null"

\* What getSignatureData returns without an image (null).
NoImage == "null"

\* pdfBlobUrl without a preview (null).
NoBlob == "null"

\* The date the form starts with, new Date().toISOString().split('T')[0],
\* as a day number.
DefaultDate == 1

\* pdfUrl of a voucher no document was attached to.
NoUrl == [bucket |-> "", file |-> Undef]

\* No PDF bytes.
NoPdf == [voucherId |-> Undef, salesSign |-> "", customerSign |-> ""]

\* finalize has not answered.
NoResponse ==
  [status |-> 0, success |-> FALSE, error |-> "", pdfUrl |-> NoUrl,
   pdfData |-> NoPdf, voucherId |-> Undef]

VARIABLES
  tz,                     \* time zone offset of the browser, in hours
  serverVouchers,         \* what GET /api/voucher/customer/:id answers
  vouchers,               \* useState<Voucher[]>
  allLedgerEntries,       \* useState<LedgerEntry[]>
  filteredLedgerEntries,  \* useState<LedgerEntry[]>
  dateRange,              \* useState({start, end})
  loading,                \* useState(true)
  builds,                 \* completed runs of fetchData
  routeId,                \* router.query.id, an account number
  customerRes,            \* status of the last customer lookup response
  ledgerCustomer,         \* useState<Customer | null>(null)
  ledgerError,            \* useState<string | null>(null)
  voucherFetches,         \* requests for the customer's vouchers issued
  serverCustomers,        \* what GET /api/customers answers
  allVouchers,            \* what GET /api/vouchers answers
  ledgerEntries,          \* full ledger page: useState([])
  fullLoading,            \* full ledger page: useState(true)
  fullError,              \* full ledger page: an error message is set
  fullDateRange,          \* full ledger page: useState({start, end})
  sortField,              \* full ledger page: useState("date")
  sortDirection,          \* full ledger page: useState("desc")
  balPc,                  \* balances page: where fetchBalances stands
  balTasks,               \* balances page: balancesPromises, each pending
                          \* or holding its value
  balSettled,             \* the tasks that have settled, in the order they
                          \* did, with what their fetch met
  customerBalances,       \* balances page: useState([])
  balLoading,             \* balances page: useState(true)
  balError,               \* balances page: an error message is set
  voucherType,            \* voucher form: useState("INV")
  rows,                   \* voucher form: useState([initial row])
  formSteps,              \* voucher form: user actions so far
  request,                \* POST /api/voucher/create bodies in flight
  stored,                 \* the vouchers table rows written by the endpoint
  finRequest,             \* POST /api/voucher/finalize bodies in flight
  finResponse,            \* what the finalize endpoint answered last
  customerTable,          \* the customers table, in order of creation
  custForm,               \* account-opening page of each client:
                          \* form.accountNo and customersLoading
  custPending,            \* POST /api/customers/create bodies in flight
  custResponse,           \* what each client's last POST was answered
  sigRoute,               \* signature page: router.query.id
  sigVoucher,             \* signature page: useState<Voucher | null>(null)
  sigLoading,             \* signature page: useState(true)
  saving,                 \* signature page: useState(false)
  msg,                    \* signature page: useState("")
  hasSalesSigned,         \* signature page: useState(false)
  hasCustomerSigned,      \* signature page: useState(false)
  pdfBlobUrl,             \* signature page: useState<string | null>(null)
  showPdfPreview,         \* signature page: useState(false)
  activeSignature,        \* signature page: useState(null)
  canvas,                 \* signature page: the drawing of the mounted
                          \* SignatureCanvas
  alerted,                \* signature page: the last alert shown
  sigRequest              \* signature page: finalize requests it sent

\* State of the customer ledger page and of its server.
ledgerVars == <<tz, serverVouchers, vouchers, allLedgerEntries,
                filteredLedgerEntries, dateRange, loading, builds, routeId,
                customerRes, ledgerCustomer, ledgerError,
                voucherFetches>>

\* The customers and vouchers tables behind the system-wide pages.
serverVars == <<serverCustomers, allVouchers>>

\* State of the full ledger page.
fullView == <<fullDateRange, sortField, sortDirection>>
fullVars == <<ledgerEntries, fullLoading, fullError, fullView>>

\* State of the balances page.
balVars == <<balPc, balTasks, balSettled, customerBalances, balLoading,
             balError>>

\* State of the voucher form and of the create endpoint.
formVars == <<voucherType, rows, formSteps, request, stored>>

\* State of the finalize endpoint.
finVars == <<finRequest, finResponse>>

\* State of the account-opening pages and of the customers endpoint.
acctVars == <<customerTable, custForm, custPending, custResponse>>

\* State of the signature page.
sigVars == <<sigRoute, sigVoucher, sigLoading, saving, msg, hasSalesSigned,
             hasCustomerSigned, pdfBlobUrl, showPdfPreview, activeSignature,
             canvas, alerted, sigRequest>>

\* State of the pages and endpoints behind the voucher form.
restVars == <<finVars, acctVars, sigVars>>

vars == <<ledgerVars, serverVars, fullVars, balVars, formVars, restVars>>

\* The customer ledger page is not open.
LedgerIdle ==
  /\ serverVouchers = <<>>
  /\ vouchers = <<>>
  /\ allLedgerEntries = <<>>
  /\ filteredLedgerEntries = <<>>
  /\ dateRange = [start |-> NoDate, end |-> NoDate]
  /\ loading = TRUE
  /\ builds = 0
  /\ routeId = EmptyNo
  /\ customerRes = 0
  /\ ledgerCustomer = NoCustomer
  /\ ledgerError = NoError
  /\ voucherFetches = 0

\* No system-wide page has asked the server for anything.
NoServerData ==
  /\ serverCustomers = <<>>
  /\ allVouchers = <<>>

\* The full ledger page is not open.
FullIdle ==
  /\ ledgerEntries = <<>>
  /\ fullLoading = TRUE
  /\ fullError = FALSE
  /\ fullDateRange = [start |-> NoDate, end |-> NoDate]
  /\ sortField = "date"
  /\ sortDirection = "desc"

\* The voucher form is not open and nothing is posted.
FormIdle ==
  /\ voucherType = "INV"
  /\ rows = <<InitialRow>>
  /\ formSteps = 0
  /\ request = <<>>
  /\ stored = <<>>

\* No finalize request was made.
FinIdle ==
  /\ finRequest = <<>>
  /\ finResponse = NoResponse

\* No account-opening page is open and no customer was created.
AcctIdle ==
  /\ customerTable = <<>>
  /\ custForm = [c \in Clients |->
                   [accountNo |-> EmptyNo, customersLoading |-> TRUE]]
  /\ custPending = {}
  /\ custResponse = [c \in Clients |-> "none"]

\* The signature page is not open.
SigIdle ==
  /\ sigRoute = 1
  /\ sigVoucher = NoVoucher
  /\ sigLoading = TRUE
  /\ saving = FALSE
  /\ msg = ""
  /\ hasSalesSigned = FALSE
  /\ hasCustomerSigned = FALSE
  /\ pdfBlobUrl = NoBlob
  /\ showPdfPreview = FALSE
  /\ activeSignature = NoSignature
  /\ canvas = NoCanvas
  /\ alerted = ""
  /\ sigRequest = <<>>

\* Nothing behind the voucher form has run.
RestIdle == FinIdle /\ AcctIdle /\ SigIdle

\* The customers table holds the customer the ledger page is opened for.
OneCustomer ==
  /\ FinIdle
  /\ customerTable = <<[id |-> 1, accountNo |-> FirstAccountNo]>>
  /\ custForm = [c \in Clients |->
                   [accountNo |-> EmptyNo, customersLoading |-> TRUE]]
  /\ custPending = {}
  /\ custResponse = [c \in Clients |-> "none"]
  /\ SigIdle

\* The balances page is not open.
BalIdle ==
  /\ balPc = "start"
  /\ balTasks = <<>>
  /\ balSettled = <<>>
  /\ customerBalances = <<>>
  /\ balLoading = TRUE
  /\ balError = FALSE

\* ------------------------------------------------------- date conversions

\* new Date(voucher.date).getTime(): the instant of an ISO timestamp.
getTime(isoInstant) == isoInstant

\* new Date(t).toLocaleDateString(): the local calendar day of instant t.
toLocaleDateString(t, z) == (t + z) \div 24

\* new Date("M/D/YYYY"): local midnight of that day, as a UTC instant.
ParseLocalDate(day, z) == day * 24 - z

\* new Date("YYYY-MM-DD"): UTC midnight of that day.
ParseISODate(day) == day * 24

\* ------------------------------------------------------------ ledger build

\* Faulty variant of InsertByDate: v goes in front of the elements that
\* compare equal, as an unstable sort may leave it.
RECURSIVE InsertByDate_Unstable(_, _)
InsertByDate_Unstable(sorted, v) ==
  IF sorted = <<>> THEN <<v>>
  ELSE IF getTime(Head(sorted).date) - getTime(v.date) < 0
       THEN <<Head(sorted)>> \o InsertByDate_Unstable(Tail(sorted), v)
       ELSE <<v>> \o sorted

\* Array.prototype.sort with comparator a.date - b.date: a stable sort.
\* InsertByDate puts v behind every element that does not compare greater.
RECURSIVE InsertByDate(_, _)
InsertByDate(sorted, v) ==
  IF sorted = <<>> THEN <<v>>
  ELSE IF getTime(Head(sorted).date) - getTime(v.date) <= 0
       THEN <<Head(sorted)>> \o InsertByDate(Tail(sorted), v)
       ELSE <<v>> \o sorted

\* Faulty variant of SortVouchers: the response is traversed as fetched.
SortVouchers_Unsorted(vs) == vs

RECURSIVE SortVouchers(_)
SortVouchers(vs) ==
  IF vs = <<>> THEN <<>>
  ELSE InsertByDate(SortVouchers(SubSeq(vs, 1, Len(vs) - 1)), vs[Len(vs)])

\* The entry pushed for an INV voucher, given the updated accumulators.
InvoiceEntry(voucher, runningGoldBalance, runningKWDBalance, z) ==
  [date |-> toLocaleDateString(voucher.date, z),
   voucherId |-> voucher.id,
   type |-> "INV",
   goldDebit |-> voucher.totalNet,
   goldCredit |-> 0,
   goldBalance |-> runningGoldBalance,
   kwdDebit |-> voucher.totalKWD,
   kwdCredit |-> 0,
   kwdBalance |-> runningKWDBalance]

\* Faulty variant of ReceiptEntry: the totals land on the debit side.
ReceiptEntry_DebitSide(voucher, runningGoldBalance, runningKWDBalance, z) ==
  [date |-> toLocaleDateString(voucher.date, z),
   voucherId |-> voucher.id,
   type |-> "REC",
   goldDebit |-> voucher.totalNet,
   goldCredit |-> 0,
   goldBalance |-> runningGoldBalance,
   kwdDebit |-> voucher.totalKWD,
   kwdCredit |-> 0,
   kwdBalance |-> runningKWDBalance]

\* The entry pushed for any other voucher, given the updated accumulators.
ReceiptEntry(voucher, runningGoldBalance, runningKWDBalance, z) ==
  [date |-> toLocaleDateString(voucher.date, z),
   voucherId |-> voucher.id,
   type |-> "REC",
   goldDebit |-> 0,
   goldCredit |-> voucher.totalNet,
   goldBalance |-> runningGoldBalance,
   kwdDebit |-> 0,
   kwdCredit |-> voucher.totalKWD,
   kwdBalance |-> runningKWDBalance]

\* Faulty variant of ProcessVoucher: a Receipt is added to the
\* accumulators like an Invoice.
ProcessVoucher_ReceiptAdds(acc, voucher, z) ==
  LET g == acc.runningGoldBalance + voucher.totalNet
      k == acc.runningKWDBalance + voucher.totalKWD
  IN [entries |->
        Append(acc.entries,
               IF voucher.voucherType = "INV"
               THEN InvoiceEntry(voucher, g, k, z)
               ELSE ReceiptEntry(voucher, g, k, z)),
      runningGoldBalance |-> g,
      runningKWDBalance |-> k]

\* Faulty variant of ProcessVoucher: the entry snapshots the accumulators
\* before the update (balance-before semantics).
ProcessVoucher_SnapshotBefore(acc, voucher, z) ==
  IF voucher.voucherType = "INV"
  THEN [entries |->
          Append(acc.entries,
                 InvoiceEntry(voucher, acc.runningGoldBalance,
                              acc.runningKWDBalance, z)),
        runningGoldBalance |-> acc.runningGoldBalance + voucher.totalNet,
        runningKWDBalance |-> acc.runningKWDBalance + voucher.totalKWD]
  ELSE [entries |->
          Append(acc.entries,
                 ReceiptEntry(voucher, acc.runningGoldBalance,
                              acc.runningKWDBalance, z)),
        runningGoldBalance |-> acc.runningGoldBalance - voucher.totalNet,
        runningKWDBalance |-> acc.runningKWDBalance - voucher.totalKWD]

\* Body of sortedVouchers.forEach: update the accumulators, push the entry.
ProcessVoucher(acc, voucher, z) ==
  IF voucher.voucherType = "INV"
  THEN LET g == acc.runningGoldBalance + voucher.totalNet
           k == acc.runningKWDBalance + voucher.totalKWD
       IN [entries |-> Append(acc.entries, InvoiceEntry(voucher, g, k, z)),
           runningGoldBalance |-> g,
           runningKWDBalance |-> k]
  ELSE LET g == acc.runningGoldBalance - voucher.totalNet
           k == acc.runningKWDBalance - voucher.totalKWD
       IN [entries |-> Append(acc.entries, ReceiptEntry(voucher, g, k, z)),
           runningGoldBalance |-> g,
           runningKWDBalance |-> k]

RECURSIVE ForEachVoucher(_, _, _)
ForEachVoucher(sorted, acc, z) ==
  IF sorted = <<>> THEN acc
  ELSE ForEachVoucher(Tail(sorted), ProcessVoucher(acc, Head(sorted), z), z)

\* Faulty variant: a ledger always opens with a brought-forward row.
BuildLedger_SeedRow(vs, z) ==
  ForEachVoucher(SortVouchers(vs),
                 [entries |-> <<[voucherId |-> 0, date |-> 0, type |-> "INV",
                                 goldDebit |-> 0, goldCredit |-> 0,
                                 goldBalance |-> 0, kwdDebit |-> 0,
                                 kwdCredit |-> 0, kwdBalance |-> 0]>>,
                  runningGoldBalance |-> 0, runningKWDBalance |-> 0],
                 z).entries

\* Faulty variant: the accumulators are kept between runs and start from
\* the balances of the ledger built before.
BuildLedger_Carry(vs, z) ==
  ForEachVoucher(SortVouchers(vs),
                 [entries |-> <<>>,
                  runningGoldBalance |->
                    IF Len(allLedgerEntries) = 0 THEN 0
                    ELSE allLedgerEntries[Len(allLedgerEntries)].goldBalance,
                  runningKWDBalance |->
                    IF Len(allLedgerEntries) = 0 THEN 0
                    ELSE allLedgerEntries[Len(allLedgerEntries)].kwdBalance],
                 z).entries

\* "Process vouchers into ledger entries": both accumulators start at 0.
BuildLedger(vs, z) ==
  ForEachVoucher(SortVouchers(vs),
                 [entries |-> <<>>, runningGoldBalance |-> 0,
                  runningKWDBalance |-> 0],
                 z).entries

\* ------------------------------------------------------- bounded report

\* matchesDateRange of the filter effect.
MatchesDateRange(entry, range, z) ==
  LET entryDate == ParseLocalDate(entry.date, z) IN
  /\ (range.start = NoDate \/ entryDate >= ParseISODate(range.start))
  /\ (range.end = NoDate \/ entryDate <= ParseISODate(range.end))

\* The filter effect: it returns early, leaving the filtered list as it
\* is, while there are no ledger entries.
FilterEffect(all, filtered, range, z) ==
  IF Len(all) = 0 THEN filtered
  ELSE SelectSeq(all, LAMBDA entry : MatchesDateRange(entry, range, z))

\* Faulty variant of OpeningScan: an entry read as exactly the start
\* instant counts as before the range although the filter keeps it.
RECURSIVE OpeningScan_Inclusive(_, _, _, _)
OpeningScan_Inclusive(all, i, startDate, z) ==
  IF i < 1 THEN [gold |-> 0, kwd |-> 0]
  ELSE IF ParseLocalDate(all[i].date, z) <= startDate
       THEN [gold |-> all[i].goldBalance, kwd |-> all[i].kwdBalance]
       ELSE OpeningScan_Inclusive(all, i - 1, startDate, z)

\* Backward scan for the last entry before the range start.
RECURSIVE OpeningScan(_, _, _, _)
OpeningScan(all, i, startDate, z) ==
  IF i < 1 THEN [gold |-> 0, kwd |-> 0]
  ELSE IF ParseLocalDate(all[i].date, z) < startDate
       THEN [gold |-> all[i].goldBalance, kwd |-> all[i].kwdBalance]
       ELSE OpeningScan(all, i - 1, startDate, z)

calculateOpeningBalance(all, range, z) ==
  IF range.start = NoDate \/ Len(all) = 0
  THEN [gold |-> 0, kwd |-> 0]
  ELSE OpeningScan(all, Len(all), ParseISODate(range.start), z)

\* Faulty variant of calculateClosingBalance: an empty window closes at
\* zero instead of at the opening balance.
calculateClosingBalance_ZeroWhenEmpty(all, filtered, range, z) ==
  IF Len(filtered) = 0
  THEN [gold |-> 0, kwd |-> 0]
  ELSE [gold |-> filtered[Len(filtered)].goldBalance,
        kwd |-> filtered[Len(filtered)].kwdBalance]

calculateClosingBalance(all, filtered, range, z) ==
  IF Len(filtered) = 0
  THEN calculateOpeningBalance(all, range, z)
  ELSE [gold |-> filtered[Len(filtered)].goldBalance,
        kwd |-> filtered[Len(filtered)].kwdBalance]

\* Values the page derives on every render.
openingBalance == calculateOpeningBalance(allLedgerEntries, dateRange, tz)
closingBalance ==
  calculateClosingBalance(allLedgerEntries, filteredLedgerEntries, dateRange, tz)

currentGoldBalance ==
  IF Len(allLedgerEntries) > 0
  THEN allLedgerEntries[Len(allLedgerEntries)].goldBalance ELSE 0
currentKWDBalance ==
  IF Len(allLedgerEntries) > 0
  THEN allLedgerEntries[Len(allLedgerEntries)].kwdBalance ELSE 0

\* Period totals over the filtered entries (reduce with initial value 0).
RECURSIVE SumField(_, _)
SumField(entries, field) ==
  IF entries = <<>> THEN 0
  ELSE SumField(SubSeq(entries, 1, Len(entries) - 1), field)
       + entries[Len(entries)][field]

totalGoldDebit == SumField(filteredLedgerEntries, "goldDebit")
totalGoldCredit == SumField(filteredLedgerEntries, "goldCredit")
totalKWDDebit == SumField(filteredLedgerEntries, "kwdDebit")
totalKWDCredit == SumField(filteredLedgerEntries, "kwdCredit")

\* "Period Gold Change" / "Period KWD Change" of the results summary.
periodGoldChange == closingBalance.gold - openingBalance.gold
periodKWDChange == closingBalance.kwd - openingBalance.kwd

\* ------------------------------------------------- balances page summary

\* Body of sortedVouchers.forEach on the balances page: INV adds, REC
\* subtracts, any other type is passed over.
BalanceStep(acc, voucher) ==
  IF voucher.voucherType = "INV"
  THEN [goldBalance |-> acc.goldBalance + voucher.totalNet,
        kwdBalance |-> acc.kwdBalance + voucher.totalKWD]
  ELSE IF voucher.voucherType = "REC"
  THEN [goldBalance |-> acc.goldBalance - voucher.totalNet,
        kwdBalance |-> acc.kwdBalance - voucher.totalKWD]
  ELSE acc

RECURSIVE ForEachBalance(_, _)
ForEachBalance(sorted, acc) ==
  IF sorted = <<>> THEN acc
  ELSE ForEachBalance(Tail(sorted), BalanceStep(acc, Head(sorted)))

\* Faulty variant: the last transaction date is read from the last voucher
\* of the list as fetched.
CalculateBalances_LastFetched(vs, z) ==
  IF Len(vs) > 0
  THEN LET b == ForEachBalance(SortVouchers(vs),
                               [goldBalance |-> 0, kwdBalance |-> 0])
       IN [goldBalance |-> b.goldBalance,
           kwdBalance |-> b.kwdBalance,
           lastTransactionDate |-> toLocaleDateString(vs[Len(vs)].date, z),
           voucherCount |-> Len(vs)]
  ELSE [goldBalance |-> 0, kwdBalance |-> 0,
        lastTransactionDate |-> NoDate, voucherCount |-> 0]

\* "Calculate balances" for one customer's fetched vouchers; a null
\* lastTransactionDate is NoDate.
CalculateBalances(vs, z) ==
  IF Len(vs) > 0
  THEN LET sortedVouchers == SortVouchers(vs)
           b == ForEachBalance(sortedVouchers,
                               [goldBalance |-> 0, kwdBalance |-> 0])
       IN [goldBalance |-> b.goldBalance,
           kwdBalance |-> b.kwdBalance,
           lastTransactionDate |->
             toLocaleDateString(sortedVouchers[Len(sortedVouchers)].date, z),
           voucherCount |-> Len(vs)]
  ELSE [goldBalance |-> 0, kwdBalance |-> 0,
        lastTransactionDate |-> NoDate, voucherCount |-> 0]

\* ----------------------------------------------------------- the page

\* What the database does for a query: it answers or it throws.
DbOutcomes == {"ok", "throws"}

\* Faulty variant of FindFirst: the lookup falls back on the first
\* customer of the table.
FindFirst_Fallback(table, accountNo) ==
  IF table = <<>> THEN NoCustomer
  ELSE [id |-> table[1].id, accountNo |-> accountNo]

\* prisma.customer.findFirst({where: {accountNo}}); null when no customer
\* has the account number.
FindFirst(table, accountNo) ==
  IF \E i \in 1..Len(table) : table[i].accountNo = accountNo
  THEN table[CHOOSE i \in 1..Len(table) :
               /\ table[i].accountNo = accountNo
               /\ \A j \in 1..(i - 1) : table[j].accountNo # accountNo]
  ELSE NoCustomer

\* Status of GET /api/customers/account/:accountNo.
LookupStatus(table, accountNo, db) ==
  IF db = "throws" THEN 500
  ELSE IF FindFirst(table, accountNo) = NoCustomer THEN 404
  ELSE 200

Init ==
  /\ tz \in TzOffsets
  /\ serverVouchers \in VoucherLists
  /\ vouchers = <<>>
  /\ allLedgerEntries = <<>>
  /\ filteredLedgerEntries = <<>>
  /\ dateRange = [start |-> NoDate, end |-> NoDate]
  /\ loading = TRUE
  /\ builds = 0
  /\ routeId = FirstAccountNo
  /\ customerRes = 0
  /\ ledgerCustomer = NoCustomer
  /\ ledgerError = NoError
  /\ voucherFetches = 0
  /\ NoServerData
  /\ FullIdle
  /\ BalIdle
  /\ FormIdle
  /\ OneCustomer

\* The mount effect: the range becomes the current month, whose first and
\* last day lie anywhere relative to the vouchers.
MountEffect ==
  /\ loading
  /\ dateRange = [start |-> NoDate, end |-> NoDate]
  /\ \E s, e \in Days : s < e /\ dateRange' = [start |-> s, end |-> e]
  /\ filteredLedgerEntries' =
       FilterEffect(allLedgerEntries, filteredLedgerEntries, dateRange', tz)
  /\ UNCHANGED <<tz, serverVouchers, vouchers, allLedgerEntries, loading,
                 builds, routeId, customerRes, ledgerCustomer,
                 ledgerError, voucherFetches>>
  /\ UNCHANGED <<serverVars, fullVars, balVars, formVars, restVars>>

\* fetchData, successful path, followed by the filter effect its state
\* updates trigger.  The responses arrive after the mount effect has run.
FetchData ==
  /\ loading
  /\ dateRange.start # NoDate
  /\ LookupStatus(customerTable, routeId, "ok") = 200
  /\ customerRes' = 200
  /\ ledgerCustomer' = FindFirst(customerTable, routeId)
  /\ voucherFetches' = voucherFetches + 1
  /\ ledgerError' = NoError
  /\ LET entries == BuildLedger(serverVouchers, tz) IN
     /\ vouchers' = serverVouchers
     /\ allLedgerEntries' = entries
     /\ filteredLedgerEntries' = FilterEffect(entries, entries, dateRange, tz)
  /\ loading' = FALSE
  /\ builds' = builds + 1
  /\ UNCHANGED <<tz, serverVouchers, dateRange, routeId>>
  /\ UNCHANGED <<serverVars, fullVars, balVars, formVars, restVars>>

\* The fetch effect runs again on the same page (the route parameter is
\* resolved again, or Strict Mode replays the effect): fetchData starts by
\* setting loading and clearing the error and touches nothing else until
\* its responses arrive.
Reload ==
  /\ ~loading
  /\ builds < MaxBuilds
  /\ loading' = TRUE
  /\ ledgerError' = NoError
  /\ UNCHANGED <<tz, serverVouchers, vouchers, allLedgerEntries,
                 filteredLedgerEntries, dateRange, builds, routeId,
                 customerRes, ledgerCustomer, voucherFetches>>
  /\ UNCHANGED <<serverVars, fullVars, balVars, formVars, restVars>>

\* The From Date input (a day, or cleared), then the filter effect.  The
\* inputs are rendered once loading is over.
SetStart(s) ==
  /\ ~loading
  /\ dateRange' = [dateRange EXCEPT !.start = s]
  /\ filteredLedgerEntries' =
       FilterEffect(allLedgerEntries, filteredLedgerEntries, dateRange', tz)
  /\ UNCHANGED <<tz, serverVouchers, vouchers, allLedgerEntries, loading,
                 builds, routeId, customerRes, ledgerCustomer,
                 ledgerError, voucherFetches>>
  /\ UNCHANGED <<serverVars, fullVars, balVars, formVars, restVars>>

\* The To Date input (a day, or cleared), then the filter effect.
SetEnd(e) ==
  /\ ~loading
  /\ dateRange' = [dateRange EXCEPT !.end = e]
  /\ filteredLedgerEntries' =
       FilterEffect(allLedgerEntries, filteredLedgerEntries, dateRange', tz)
  /\ UNCHANGED <<tz, serverVouchers, vouchers, allLedgerEntries, loading,
                 builds, routeId, customerRes, ledgerCustomer,
                 ledgerError, voucherFetches>>
  /\ UNCHANGED <<serverVars, fullVars, balVars, formVars, restVars>>

Next ==
  \/ MountEffect
  \/ FetchData
  \/ \E s \in Days \cup {NoDate} : SetStart(s)
  \/ \E e \in Days \cup {NoDate} : SetEnd(e)

Spec == Init /\ [][Next]_vars

\* The ledger page with the fetch effect running more than once.
RebuildNext ==
  \/ MountEffect
  \/ FetchData
  \/ Reload

RebuildSpec == Init /\ [][RebuildNext]_vars

\* The page may be opened for any account number; the table holds one
\* customer or none.
LookupInit ==
  /\ tz = 0
  /\ serverVouchers \in {vs \in VoucherLists : Len(vs) <= 1}
  /\ vouchers = <<>>
  /\ allLedgerEntries = <<>>
  /\ filteredLedgerEntries = <<>>
  /\ dateRange = [start |-> NoDate, end |-> NoDate]
  /\ loading = TRUE
  /\ builds = 0
  /\ routeId \in RouteIds
  /\ customerRes = 0
  /\ ledgerCustomer = NoCustomer
  /\ ledgerError = NoError
  /\ voucherFetches = 0
  /\ NoServerData
  /\ FullIdle
  /\ BalIdle
  /\ FormIdle
  /\ FinIdle
  /\ customerTable \in
       {<<>>, <<[id |-> 1, accountNo |-> FirstAccountNo]>>}
  /\ custForm = [c \in Clients |->
                   [accountNo |-> EmptyNo, customersLoading |-> TRUE]]
  /\ custPending = {}
  /\ custResponse = [c \in Clients |-> "none"]
  /\ SigIdle

\* fetchData when the customer lookup is answered with a status that is
\* not ok: the throw skips everything up to the catch, which sets the
\* error; finally ends the loading.
FetchDataLookupFails(db) ==
  /\ loading
  /\ dateRange.start # NoDate
  /\ LookupStatus(customerTable, routeId, db) # 200
  /\ customerRes' = LookupStatus(customerTable, routeId, db)
  /\ ledgerError' = "Customer not found"
  /\ loading' = FALSE
  /\ builds' = builds + 1
  /\ UNCHANGED <<tz, serverVouchers, vouchers, allLedgerEntries,
                 filteredLedgerEntries, dateRange, routeId,
                 ledgerCustomer, voucherFetches>>
  /\ UNCHANGED <<serverVars, fullVars, balVars, formVars, restVars>>

\* fetchData when the customer is found and the voucher fetch is answered
\* with a status that is not ok.
FetchDataVouchersFail ==
  /\ loading
  /\ dateRange.start # NoDate
  /\ LookupStatus(customerTable, routeId, "ok") = 200
  /\ customerRes' = 200
  /\ ledgerCustomer' = FindFirst(customerTable, routeId)
  /\ voucherFetches' = voucherFetches + 1
  /\ ledgerError' = "Failed to fetch vouchers"
  /\ loading' = FALSE
  /\ builds' = builds + 1
  /\ UNCHANGED <<tz, serverVouchers, vouchers, allLedgerEntries,
                 filteredLedgerEntries, dateRange, routeId>>
  /\ UNCHANGED <<serverVars, fullVars, balVars, formVars, restVars>>

\* The route changes to another account number: the fetch effect runs
\* again and fetchData starts.
Navigate(id) ==
  /\ ~loading
  /\ builds < MaxBuilds
  /\ id # routeId
  /\ routeId' = id
  /\ loading' = TRUE
  /\ ledgerError' = NoError
  /\ UNCHANGED <<tz, serverVouchers, vouchers, allLedgerEntries,
                 filteredLedgerEntries, dateRange, builds, customerRes,
                 ledgerCustomer, voucherFetches>>
  /\ UNCHANGED <<serverVars, fullVars, balVars, formVars, restVars>>

LookupNext ==
  \/ MountEffect
  \/ FetchData
  \/ \E db \in DbOutcomes : FetchDataLookupFails(db)
  \/ FetchDataVouchersFail
  \/ \E id \in RouteIds : Navigate(id)

LookupSpec == LookupInit /\ [][LookupNext]_vars

\* ------------------------------------------------------ full ledger page

\* customerMap: the fetched customers by id; a later customer with the
\* same id replaces an earlier one.
CustomerMap(customers) ==
  [c \in {customers[i].id : i \in 1..Len(customers)} |->
     customers[CHOOSE i \in 1..Len(customers) :
                 /\ customers[i].id = c
                 /\ \A j \in (i + 1)..Len(customers) : customers[j].id # c]]

\* A full ledger entry: the customer ledger's entry plus the customer.
FullLedgerEntry(entry, customer) ==
  [k \in DOMAIN entry \cup {"customer"} |->
     IF k = "customer" THEN customer ELSE entry[k]]

\* Faulty variant: a voucher without customer still moves the running
\* balances.
ProcessFullVoucher_CountsUnknown(acc, voucher, customerMap, z) ==
  LET step == ProcessVoucher([acc EXCEPT !.entries = <<>>], voucher, z)
  IN [entries |->
        IF voucher.accountId \notin DOMAIN customerMap THEN acc.entries
        ELSE Append(acc.entries,
                    FullLedgerEntry(step.entries[1],
                                    customerMap[voucher.accountId])),
      runningGoldBalance |-> step.runningGoldBalance,
      runningKWDBalance |-> step.runningKWDBalance]

\* Body of sortedVouchers.forEach on the full ledger page: a voucher whose
\* accountId is not in customerMap is warned about and passed over.
ProcessFullVoucher(acc, voucher, customerMap, z) ==
  IF voucher.accountId \notin DOMAIN customerMap
  THEN acc
  ELSE LET step == ProcessVoucher([acc EXCEPT !.entries = <<>>], voucher, z)
       IN [entries |->
             Append(acc.entries,
                    FullLedgerEntry(step.entries[1],
                                    customerMap[voucher.accountId])),
           runningGoldBalance |-> step.runningGoldBalance,
           runningKWDBalance |-> step.runningKWDBalance]

RECURSIVE ForEachFullVoucher(_, _, _, _)
ForEachFullVoucher(sorted, acc, customerMap, z) ==
  IF sorted = <<>> THEN acc
  ELSE ForEachFullVoucher(Tail(sorted),
                          ProcessFullVoucher(acc, Head(sorted), customerMap, z),
                          customerMap, z)

\* "Process all vouchers into ledger entries".
BuildFullLedger(vs, customers, z) ==
  ForEachFullVoucher(SortVouchers(vs),
                     [entries |-> <<>>, runningGoldBalance |-> 0,
                      runningKWDBalance |-> 0],
                     CustomerMap(customers), z).entries

FullInit ==
  /\ tz \in TzOffsets
  /\ LedgerIdle
  /\ serverCustomers \in CustomerLists
  /\ allVouchers \in AllVoucherLists
  /\ FullIdle
  /\ BalIdle
  /\ FormIdle
  /\ RestIdle

\* fetchFullLedger, both responses OK.
FetchFullLedger ==
  /\ fullLoading
  /\ ledgerEntries' = BuildFullLedger(allVouchers, serverCustomers, tz)
  /\ fullLoading' = FALSE
  /\ UNCHANGED <<fullError, fullView>>
  /\ UNCHANGED <<ledgerVars, serverVars, balVars, formVars, restVars>>

\* fetchFullLedger when a response is not OK: the throw is caught, the
\* error is set and no entries are stored.
FetchFullLedgerFails ==
  /\ fullLoading
  /\ fullError' = TRUE
  /\ fullLoading' = FALSE
  /\ UNCHANGED <<ledgerEntries, fullView>>
  /\ UNCHANGED <<ledgerVars, serverVars, balVars, formVars, restVars>>

FullNext ==
  \/ FetchFullLedger
  \/ FetchFullLedgerFails

FullSpec == FullInit /\ [][FullNext]_vars

\* The columns the table sorts by.
SortFields ==
  {"date", "customer", "type", "goldDebit", "goldCredit", "kwdDebit",
   "kwdCredit"}

\* aValue of the comparator as a number: the instant new Date(a.date)
\* gives, the customer's name in the order of the customer ids, the type
\* in the order of its letters, or the amount.
SortValue(entry, field, z) ==
  CASE field = "date" -> ParseLocalDate(entry.date, z)
    [] field = "customer" -> entry.customer.id
    [] field = "type" -> IF entry.type = "INV" THEN 0 ELSE 1
    [] OTHER -> entry[field]

\* The comparator (a, b) => aValue > bValue ? 1 : -1 for "asc" and
\* aValue < bValue ? 1 : -1 for "desc" puts a after b.
SortsAfter(a, b, field, direction, z) ==
  IF direction = "asc"
  THEN SortValue(a, field, z) > SortValue(b, field, z)
  ELSE SortValue(a, field, z) < SortValue(b, field, z)

\* The filter of filteredAndSortedEntries with the search term, the
\* customer and the type left at "all".
FilterEntries(entries, range, z) ==
  SelectSeq(entries, LAMBDA entry : MatchesDateRange(entry, range, z))

\* The arrays .sort may return: the comparator never answers 0, so the
\* place of entries with equal values is left to the engine.
SortedArrays(filtered, field, direction, z) ==
  {sorted \in {[i \in 1..Len(filtered) |-> filtered[perm[i]]] :
                 perm \in Permutations(1..Len(filtered))} :
     \A i, j \in 1..Len(sorted) :
       i < j => ~SortsAfter(sorted[i], sorted[j], field, direction, z)}

\* filteredAndSortedEntries, every array the engine may produce.
filteredAndSortedEntries ==
  SortedArrays(FilterEntries(ledgerEntries, fullDateRange, tz), sortField,
               sortDirection, tz)

\* currentGoldBalance and currentKWDBalance of one such array.
CurrentBalance(sorted) ==
  IF Len(sorted) > 0
  THEN [gold |-> sorted[Len(sorted)].goldBalance,
        kwd |-> sorted[Len(sorted)].kwdBalance]
  ELSE [gold |-> 0, kwd |-> 0]

\* Vouchers of the first customer with the largest totals.
SortVoucherLists ==
  {vs \in AllVoucherLists :
     \A i \in 1..Len(vs) : /\ vs[i].accountId = 1
                           /\ vs[i].totalNet = MaxAmount}

SortInit ==
  /\ tz = 0
  /\ LedgerIdle
  /\ serverCustomers = [i \in 1..MaxCustomers |-> [id |-> i]]
  /\ allVouchers \in SortVoucherLists
  /\ FullIdle
  /\ BalIdle
  /\ FormIdle
  /\ RestIdle

\* handleSort(field) from a column header.
HandleSort(field) ==
  /\ ~fullLoading
  /\ IF sortField = field
     THEN /\ sortDirection' = IF sortDirection = "asc" THEN "desc" ELSE "asc"
          /\ UNCHANGED sortField
     ELSE /\ sortField' = field
          /\ sortDirection' = "desc"
  /\ UNCHANGED <<ledgerEntries, fullLoading, fullError, fullDateRange>>
  /\ UNCHANGED <<ledgerVars, serverVars, balVars, formVars, restVars>>

\* The From and To date inputs of the filter panel.
SetFullDateRange(s, e) ==
  /\ ~fullLoading
  /\ fullDateRange' = [start |-> s, end |-> e]
  /\ UNCHANGED <<ledgerEntries, fullLoading, fullError, sortField,
                 sortDirection>>
  /\ UNCHANGED <<ledgerVars, serverVars, balVars, formVars, restVars>>

SortNext ==
  \/ FetchFullLedger
  \/ \E field \in SortFields : HandleSort(field)
  \/ \E s, e \in Days \cup {NoDate} : SetFullDateRange(s, e)

SortSpec == SortInit /\ [][SortNext]_vars

\* -------------------------------------------------------- balances page

\* What a per-customer fetch can meet: an OK response, a response that is
\* not OK, or a throw (network failure, malformed body).
FetchOutcomes == {"ok", "notOk", "throws"}

\* GET /api/voucher/customer/:customerId, the vouchers of one account.
VouchersOfCustomer(all, customerId) ==
  SelectSeq(all, LAMBDA v : v.accountId = customerId)

\* The summary returned for a customer whose vouchers could not be read.
Placeholder(customer) ==
  [customer |-> customer, goldBalance |-> 0, kwdBalance |-> 0,
   lastTransactionDate |-> NoDate, voucherCount |-> 0]

\* Faulty variant: a throw inside the per-customer task is not caught and
\* the task's promise rejects.
CustomerTask_Rejects(customer, outcome, all, z) ==
  IF outcome = "throws" THEN [state |-> "rejected"]
  ELSE IF outcome = "notOk"
  THEN [state |-> "fulfilled", value |-> Placeholder(customer)]
  ELSE LET b == CalculateBalances(VouchersOfCustomer(all, customer.id), z)
       IN [state |-> "fulfilled",
           value |-> [customer |-> customer,
                      goldBalance |-> b.goldBalance,
                      kwdBalance |-> b.kwdBalance,
                      lastTransactionDate |-> b.lastTransactionDate,
                      voucherCount |-> b.voucherCount]]

\* The async callback of customers.map, as the promise it settles to: the
\* inner try/catch turns every failure into a fulfilled placeholder.
CustomerTask(customer, outcome, all, z) ==
  IF outcome = "ok"
  THEN LET b == CalculateBalances(VouchersOfCustomer(all, customer.id), z)
       IN [state |-> "fulfilled",
           value |-> [customer |-> customer,
                      goldBalance |-> b.goldBalance,
                      kwdBalance |-> b.kwdBalance,
                      lastTransactionDate |-> b.lastTransactionDate,
                      voucherCount |-> b.voucherCount]]
  ELSE [state |-> "fulfilled", value |-> Placeholder(customer)]

\* Faulty variant: the join completes as soon as one task has (Promise.any).
PromiseAll_Any(tasks) ==
  IF \E i \in 1..Len(tasks) : tasks[i].state = "rejected"
  THEN "rejected"
  ELSE IF \E i \in 1..Len(tasks) : tasks[i].state = "fulfilled"
  THEN "fulfilled"
  ELSE "pending"

\* State of Promise.all(balancesPromises): rejected once a task is,
\* fulfilled once all are, pending until then.
PromiseAll(tasks) ==
  IF \E i \in 1..Len(tasks) : tasks[i].state = "rejected"
  THEN "rejected"
  ELSE IF \A i \in 1..Len(tasks) : tasks[i].state = "fulfilled"
  THEN "fulfilled"
  ELSE "pending"

\* The array Promise.all fulfils with: the tasks' values in the order of
\* the tasks, whatever the order they settled in.
PromiseAllValues(tasks) ==
  LET done == SelectSeq(tasks, LAMBDA t : t.state = "fulfilled")
  IN [i \in 1..Len(done) |-> done[i].value]

BalInit ==
  /\ tz \in TzOffsets
  /\ LedgerIdle
  /\ serverCustomers \in CustomerLists
  /\ allVouchers \in CustomerVoucherLists
  /\ FullIdle
  /\ BalIdle
  /\ FormIdle
  /\ RestIdle

\* The customers response is OK: one task per customer is started.
BalFetchCustomers ==
  /\ balPc = "start"
  /\ balTasks' = [i \in 1..Len(serverCustomers) |-> [state |-> "pending"]]
  /\ balPc' = "tasks"
  /\ UNCHANGED <<balSettled, customerBalances, balLoading, balError>>
  /\ UNCHANGED <<ledgerVars, serverVars, fullVars, formVars, restVars>>

\* The customers response is not OK: the throw reaches the outer catch.
BalFetchCustomersFails ==
  /\ balPc = "start"
  /\ balError' = TRUE
  /\ balPc' = "failed"
  /\ UNCHANGED <<balTasks, balSettled, customerBalances, balLoading>>
  /\ UNCHANGED <<ledgerVars, serverVars, fullVars, formVars, restVars>>

\* The task of the i-th customer settles, its fetch having met `outcome'.
TaskSettles(i, outcome) ==
  /\ balPc = "tasks"
  /\ balTasks[i].state = "pending"
  /\ balTasks' = [balTasks EXCEPT
                    ![i] = CustomerTask(serverCustomers[i], outcome,
                                        allVouchers, tz)]
  /\ balSettled' = Append(balSettled, [task |-> i, outcome |-> outcome])
  /\ UNCHANGED <<balPc, customerBalances, balLoading, balError>>
  /\ UNCHANGED <<ledgerVars, serverVars, fullVars, formVars, restVars>>

\* `await Promise.all(balancesPromises)' resumes: the balances are stored,
\* or a rejection reaches the outer catch.
AwaitAll ==
  /\ balPc = "tasks"
  /\ PromiseAll(balTasks) # "pending"
  /\ IF PromiseAll(balTasks) = "fulfilled"
     THEN /\ customerBalances' = PromiseAllValues(balTasks)
          /\ balPc' = "published"
          /\ UNCHANGED balError
     ELSE /\ balError' = TRUE
          /\ balPc' = "failed"
          /\ UNCHANGED customerBalances
  /\ UNCHANGED <<balTasks, balSettled, balLoading>>
  /\ UNCHANGED <<ledgerVars, serverVars, fullVars, formVars, restVars>>

\* The finally block.
FinishLoading ==
  /\ balPc \in {"published", "failed"}
  /\ balLoading' = FALSE
  /\ balPc' = "done"
  /\ UNCHANGED <<balTasks, balSettled, customerBalances, balError>>
  /\ UNCHANGED <<ledgerVars, serverVars, fullVars, formVars, restVars>>

BalNext ==
  \/ BalFetchCustomers
  \/ BalFetchCustomersFails
  \/ \E i \in 1..Len(balTasks), outcome \in FetchOutcomes :
       TaskSettles(i, outcome)
  \/ AwaitAll
  \/ FinishLoading

BalSpec == BalInit /\ [][BalNext]_vars

\* Faulty variant of SumBalances: only what customers owe is added up.
RECURSIVE SumBalances_Owed(_, _)
SumBalances_Owed(balances, field) ==
  IF balances = <<>> THEN 0
  ELSE (IF balances[1][field] > 0 THEN balances[1][field] ELSE 0)
       + SumBalances_Owed(Tail(balances), field)

\* customerBalances.reduce((sum, balance) => sum + balance[field], 0)
RECURSIVE SumBalances(_, _)
SumBalances(balances, field) ==
  IF balances = <<>> THEN 0
  ELSE balances[1][field] + SumBalances(Tail(balances), field)

totalGoldBalance == SumBalances(customerBalances, "goldBalance")
totalKWDBalance == SumBalances(customerBalances, "kwdBalance")

\* The vouchers table behind both system-wide pages: a voucher per
\* customer, or vouchers of the first day with the largest gold total for
\* the first customer or for a customer that is not in the table.
TotalsVoucherLists ==
  CustomerVoucherLists \cup
    {vs \in AllVoucherLists :
       \A i \in 1..Len(vs) : /\ vs[i].totalNet = MaxAmount
                             /\ vs[i].date = ParseISODate(1)}

TotalsInit ==
  /\ tz = 0
  /\ LedgerIdle
  /\ serverCustomers \in CustomerLists
  /\ allVouchers \in TotalsVoucherLists
  /\ FullIdle
  /\ BalIdle
  /\ FormIdle
  /\ RestIdle

\* The balances page and the full ledger page load from the same tables.
TotalsNext ==
  \/ BalNext
  \/ FetchFullLedger

TotalsSpec == TotalsInit /\ [][TotalsNext]_vars

\* --------------------------------------------------------- voucher form

NumericFields == {"weight", "purity", "makingCharges", "discountPercent", "kwd"}

\* The assignment at the head of handleRowChange: numbers through Number,
\* the description through String, any other key of the row not at all.
SetField(row, field, value) ==
  IF field \in NumericFields \/ field = "description"
  THEN [row EXCEPT ![field] = value]
  ELSE row

\* Faulty variant: the Invoice net weight leaves the purity out.
LiveCalculations_NoPurity(row, type) ==
  IF type = "INV"
  THEN [row EXCEPT
          !.netWeight = IF row.weight # 0 /\ row.purity # 0
                        THEN row.weight * PurityBase * Percent ELSE 0,
          !.kwd = IF row.weight # 0 /\ row.makingCharges \notin {Undef, 0}
                  THEN row.weight * row.makingCharges ELSE 0]
  ELSE LET weightAfterDiscount ==
             IF row.weight # 0 /\ row.discountPercent # Undef
             THEN row.weight * (Percent - row.discountPercent) ELSE 0
       IN [row EXCEPT
             !.weightAfterDiscount = weightAfterDiscount,
             !.netWeight = IF weightAfterDiscount # 0 /\ row.purity # 0
                           THEN weightAfterDiscount * row.purity ELSE 0]

\* Faulty variant: a Receipt row has its kwd computed like an Invoice row.
LiveCalculations_ReceiptKwd(row, type) ==
  LET kwd == IF row.weight # 0 /\ row.makingCharges \notin {Undef, 0}
             THEN row.weight * row.makingCharges ELSE 0
  IN IF type = "INV"
     THEN [row EXCEPT
             !.netWeight = IF row.weight # 0 /\ row.purity # 0
                           THEN row.weight * row.purity * Percent ELSE 0,
             !.kwd = kwd]
     ELSE LET weightAfterDiscount ==
                IF row.weight # 0 /\ row.discountPercent # Undef
                THEN row.weight * (Percent - row.discountPercent) ELSE 0
          IN [row EXCEPT
                !.weightAfterDiscount = weightAfterDiscount,
                !.netWeight = IF weightAfterDiscount # 0 /\ row.purity # 0
                              THEN weightAfterDiscount * row.purity ELSE 0,
                !.kwd = kwd]

\* "Live calculations" of handleRowChange.  A JavaScript condition `a && b'
\* fails on 0 and on undefined alike.
LiveCalculations(row, type) ==
  IF type = "INV"
  THEN [row EXCEPT
          !.netWeight = IF row.weight # 0 /\ row.purity # 0
                        THEN row.weight * row.purity * Percent ELSE 0,
          !.kwd = IF row.weight # 0 /\ row.makingCharges \notin {Undef, 0}
                  THEN row.weight * row.makingCharges ELSE 0]
  ELSE LET weightAfterDiscount ==
             IF row.weight # 0 /\ row.discountPercent # Undef
             THEN row.weight * (Percent - row.discountPercent) ELSE 0
       IN [row EXCEPT
             !.weightAfterDiscount = weightAfterDiscount,
             !.netWeight = IF weightAfterDiscount # 0 /\ row.purity # 0
                           THEN weightAfterDiscount * row.purity ELSE 0]

\* rows.reduce((acc, r) => acc + r[field], 0)
RECURSIVE SumRows(_, _)
SumRows(rs, field) ==
  IF rs = <<>> THEN 0
  ELSE rs[1][field] + SumRows(Tail(rs), field)

totalNet == SumRows(rows, "netWeight")
totalKWD == SumRows(rows, "kwd")

\* The constraint validation the browser runs before onSubmit: every
\* `required' input of the rendered rows holds a value.
FormValid ==
  \A i \in 1..Len(rows) :
    /\ rows[i].description # ""
    /\ voucherType = "INV" => rows[i].makingCharges # Undef
    /\ voucherType = "REC" => rows[i].discountPercent # Undef

\* Bodies a client other than the form posts: one row with its computed
\* weights, with or without its description or its weight, and totals that
\* are the row's or are not.
ApiRows ==
  <<[description |-> "ring", weight |-> 10, purity |-> DefaultPurity,
     makingCharges |-> 3, discountPercent |-> Undef,
     weightAfterDiscount |-> Undef,
     netWeight |-> 10 * DefaultPurity * Percent, kwd |-> 30]>>

ApiRowLists ==
  {ApiRows,
   <<[ApiRows[1] EXCEPT !.description = ""]>>,
   <<[ApiRows[1] EXCEPT !.weight = Undef]>>}

ApiBodies ==
  {[accountId |-> 1, voucherType |-> ty, rows |-> rs,
    totalNet |-> n, totalKWD |-> k, date |-> DefaultDate] :
     ty \in VoucherTypes, rs \in ApiRowLists,
     n \in {0, SumRows(ApiRows, "netWeight")},
     k \in {0, SumRows(ApiRows, "kwd")}}

\* The form reads no local time: its date default comes from toISOString.
FormInit ==
  /\ tz = 0
  /\ LedgerIdle
  /\ NoServerData
  /\ FullIdle
  /\ BalIdle
  /\ FormIdle
  /\ RestIdle

\* handleRowChange(index, field, value) from an input of row `index'.
HandleRowChange(index, field, value) ==
  /\ request = <<>> /\ stored = <<>>
  /\ formSteps < MaxSteps
  /\ index \in 1..Len(rows)
  /\ rows' = [rows EXCEPT
                ![index] = LiveCalculations(SetField(rows[index], field, value),
                                            voucherType)]
  /\ formSteps' = formSteps + 1
  /\ UNCHANGED <<voucherType, request, stored>>
  /\ UNCHANGED <<ledgerVars, serverVars, fullVars, balVars, restVars>>

\* addRow
AddRow ==
  /\ request = <<>> /\ stored = <<>>
  /\ formSteps < MaxSteps
  /\ rows' = Append(rows, InitialRow)
  /\ formSteps' = formSteps + 1
  /\ UNCHANGED <<voucherType, request, stored>>
  /\ UNCHANGED <<ledgerVars, serverVars, fullVars, balVars, restVars>>

\* removeRow(index); the button is rendered while there are several rows.
RemoveRow(index) ==
  /\ request = <<>> /\ stored = <<>>
  /\ formSteps < MaxSteps
  /\ Len(rows) > 1
  /\ index \in 1..Len(rows)
  /\ rows' = [i \in 1..(Len(rows) - 1) |->
                IF i < index THEN rows[i] ELSE rows[i + 1]]
  /\ formSteps' = formSteps + 1
  /\ UNCHANGED <<voucherType, request, stored>>
  /\ UNCHANGED <<ledgerVars, serverVars, fullVars, balVars, restVars>>

\* The voucher type select: setVoucherType, the rows are left as they are.
SetVoucherType(type) ==
  /\ request = <<>> /\ stored = <<>>
  /\ formSteps < MaxSteps
  /\ type # voucherType
  /\ voucherType' = type
  /\ formSteps' = formSteps + 1
  /\ UNCHANGED <<rows, request, stored>>
  /\ UNCHANGED <<ledgerVars, serverVars, fullVars, balVars, restVars>>

\* handleSubmit with an account chosen (the button is disabled without):
\* the form posts its rows and the totals rendered from them.
HandleSubmit(account) ==
  /\ request = <<>> /\ stored = <<>>
  /\ FormValid
  /\ request' = <<[accountId |-> account, voucherType |-> voucherType,
                   rows |-> rows, totalNet |-> totalNet,
                   totalKWD |-> totalKWD, date |-> DefaultDate]>>
  /\ UNCHANGED <<voucherType, rows, formSteps, stored>>
  /\ UNCHANGED <<ledgerVars, serverVars, fullVars, balVars, restVars>>

\* Another client posts a body of its own making; the form plays no part
\* and stands untouched.
DirectPost(body) ==
  /\ request = <<>> /\ Len(stored) < MaxVouchers
  /\ formSteps = 0
  /\ request' = <<body>>
  /\ UNCHANGED <<voucherType, rows, formSteps, stored>>
  /\ UNCHANGED <<ledgerVars, serverVars, fullVars, balVars, restVars>>

\* The create endpoint: prisma.voucher.create with the body's fields as
\* they came and the date parsed; the database gives the row its id and
\* leaves pdfUrl empty.
CreateHandler ==
  /\ request # <<>>
  /\ stored' = Append(stored,
                      [id |-> Len(stored) + 1,
                       accountId |-> request[1].accountId,
                       voucherType |-> request[1].voucherType,
                       date |-> ParseISODate(request[1].date),
                       rows |-> request[1].rows,
                       totalNet |-> request[1].totalNet,
                       totalKWD |-> request[1].totalKWD,
                       pdfUrl |-> NoUrl])
  /\ request' = Tail(request)
  /\ UNCHANGED <<voucherType, rows, formSteps>>
  /\ UNCHANGED <<ledgerVars, serverVars, fullVars, balVars, restVars>>

\* The create endpoint when the database write throws: status 500, nothing
\* is written.
CreateHandlerFails ==
  /\ request # <<>>
  /\ request' = Tail(request)
  /\ UNCHANGED <<voucherType, rows, formSteps, stored>>
  /\ UNCHANGED <<ledgerVars, serverVars, fullVars, balVars, restVars>>

FormNext ==
  \/ \E index \in 1..Len(rows), field \in RenderedInputs(voucherType) :
       \E value \in RowInputs[field] : HandleRowChange(index, field, value)
  \/ AddRow
  \/ \E index \in 1..Len(rows) : RemoveRow(index)
  \/ \E type \in VoucherTypes : SetVoucherType(type)
  \/ \E account \in CustomerIds : HandleSubmit(account)
  \/ \E body \in ApiBodies : DirectPost(body)
  \/ CreateHandler
  \/ CreateHandlerFails

FormSpec == FormInit /\ [][FormNext]_vars

\* ------------------------------------------------------- finalize endpoint

\* What the steps of one finalize run meet: the PDF generation, the upload
\* to the bucket and the database update each succeed or throw.
FinOutcomes ==
  [generation : {"ok", "throws"}, upload : {"ok", "throws"},
   update : {"ok", "throws"}]

\* The characters voucher.id.slice(-8) keeps, ids being numbers here.
IdSuffix == 100000000

\* process.env.B2_BUCKET_NAME || "Zamzam"
bucketName == "Zamzam"

\* The customers table before any finalize: empty, or as listed.
FinCustomerLists == {<<>>} \cup CustomerLists

\* The bodies the vouchers of this endpoint were created from.
FinBodies ==
  {b \in ApiBodies : /\ b.rows = ApiRows
                     /\ b.totalNet = SumRows(ApiRows, "netWeight")
                     /\ b.totalKWD = SumRows(ApiRows, "kwd")}

\* prisma.voucher.findUnique({where: {id}}): the positions of the table
\* that hold the voucher, none or one.
FindVoucher(table, voucherId) ==
  {i \in 1..Len(table) : table[i].id = voucherId}

\* prisma.customer.findUnique({where: {id}}) finds a customer.
CustomerFound(customers, id) ==
  \E i \in 1..Len(customers) : customers[i].id = id

\* `https://f005.backblazeb2.com/file/${bucketName}/${fileName}` with
\* fileName `voucher-${voucher.id.slice(-8)}.pdf`.
PdfUrl(voucher) == [bucket |-> bucketName, file |-> voucher.id % IdSuffix]

\* Faulty variant of B2PdfUrl: the URL is formed whether or not the upload
\* went through.
B2PdfUrl_BeforeUpload(voucher, o) == PdfUrl(voucher)

\* b2PdfUrl at the end of the inner try: assigned once the upload has
\* succeeded, null when authorizeB2, getUploadUrl or uploadFile threw.
B2PdfUrl(voucher, o) ==
  IF o.upload = "ok" THEN PdfUrl(voucher) ELSE NoUrl

\* Faulty variant of UpdatePdfUrl: a voucher that has a document gets
\* the URL of a new version.
UpdatePdfUrl_Versioned(table, voucherId, url) ==
  [i \in 1..Len(table) |->
     IF table[i].id # voucherId THEN table[i]
     ELSE IF table[i].pdfUrl = NoUrl
          THEN [table[i] EXCEPT !.pdfUrl = url]
          ELSE [table[i] EXCEPT !.pdfUrl = [url EXCEPT !.file = @ + 1]]]

\* prisma.voucher.update({where: {id: voucherId}, data: {pdfUrl}})
UpdatePdfUrl(table, voucherId, url) ==
  [i \in 1..Len(table) |->
     IF table[i].id = voucherId THEN [table[i] EXCEPT !.pdfUrl = url]
     ELSE table[i]]

\* The vouchers table after the handler ran for req and met o.
FinalizeTable(table, customers, req, o) ==
  LET found == FindVoucher(table, req.voucherId)
  IN IF found = {} THEN table
     ELSE LET voucher == table[CHOOSE i \in found : TRUE]
          IN IF ~CustomerFound(customers, voucher.accountId) THEN table
             ELSE IF o.generation = "throws" THEN table
             ELSE IF B2PdfUrl(voucher, o) # NoUrl /\ o.update = "ok"
                  THEN UpdatePdfUrl(table, req.voucherId,
                                    B2PdfUrl(voucher, o))
                  ELSE table

\* The response of the handler for req when it met o.
FinalizeResponse(table, customers, req, o) ==
  LET found == FindVoucher(table, req.voucherId)
      failure(status, error) ==
        [NoResponse EXCEPT !.status = status, !.error = error,
                           !.voucherId = req.voucherId]
  IN IF found = {} THEN failure(404, "Voucher not found")
     ELSE LET voucher == table[CHOOSE i \in found : TRUE]
          IN IF ~CustomerFound(customers, voucher.accountId)
             THEN failure(404, "Customer not found")
             ELSE IF o.generation = "throws"
             THEN failure(500, "PDF generation failed")
             ELSE [status |-> 200, success |-> TRUE, error |-> "",
                   pdfUrl |-> B2PdfUrl(voucher, o),
                   pdfData |-> [voucherId |-> voucher.id,
                                salesSign |-> req.salesSign,
                                customerSign |-> req.customerSign],
                   voucherId |-> req.voucherId]

\* Vouchers are created by posted bodies; customers exist or do not.
FinInit ==
  /\ tz = 0
  /\ LedgerIdle
  /\ serverCustomers \in FinCustomerLists
  /\ allVouchers = <<>>
  /\ FullIdle
  /\ BalIdle
  /\ FormIdle
  /\ RestIdle

\* A client posts {voucherId, salesSign, customerSign} to the endpoint.
PostFinalize(voucherId) ==
  /\ finRequest = <<>>
  /\ finRequest' = <<[voucherId |-> voucherId, salesSign |-> "sales.png",
                      customerSign |-> "customer.png"]>>
  /\ UNCHANGED finResponse
  /\ UNCHANGED <<ledgerVars, serverVars, fullVars, balVars, formVars,
                 acctVars, sigVars>>

\* The finalize handler, from the lookup of the voucher to the response.
FinalizeHandler(o) ==
  /\ finRequest # <<>>
  /\ stored' = FinalizeTable(stored, serverCustomers, finRequest[1], o)
  /\ finResponse' =
       FinalizeResponse(stored, serverCustomers, finRequest[1], o)
  /\ finRequest' = Tail(finRequest)
  /\ UNCHANGED <<voucherType, rows, formSteps, request>>
  /\ UNCHANGED <<ledgerVars, serverVars, fullVars, balVars, acctVars,
                 sigVars>>

FinNext ==
  \/ \E body \in FinBodies : DirectPost(body)
  \/ CreateHandler
  \/ CreateHandlerFails
  \/ \E voucherId \in 1..(MaxVouchers + 1) : PostFinalize(voucherId)
  \/ \E o \in FinOutcomes : FinalizeHandler(o)

FinSpec == FinInit /\ [][FinNext]_vars

\* ------------------------------------------------------- account opening

\* GET /api/customers: findMany ordered by createdAt desc.
GetCustomers(table) == [i \in 1..Len(table) |-> table[Len(table) + 1 - i]]

\* customers.map(c => parseInt(c.accountNo)).filter(n => !isNaN(n))
AccountNumbers(customers) ==
  {customers[i].accountNo : i \in 1..Len(customers)} \cap (Nat \ {0})

\* (Math.max(...accountNumbers) + 1).toString(); Math.max() of no
\* argument is -Infinity.
NextAccountNo(customers) ==
  IF AccountNumbers(customers) = {} THEN MinusInfinityNo
  ELSE (CHOOSE n \in AccountNumbers(customers) :
          \A m \in AccountNumbers(customers) : m <= n) + 1

\* Faulty variant of UniqueAccountNo: the column has no unique index.
UniqueAccountNo_NoIndex(table, accountNo) == TRUE

\* The unique index on Customer.accountNo lets a row with accountNo in.
UniqueAccountNo(table, accountNo) ==
  \A i \in 1..Len(table) : table[i].accountNo # accountNo

AcctInit ==
  /\ tz = 0
  /\ LedgerIdle
  /\ NoServerData
  /\ FullIdle
  /\ BalIdle
  /\ FormIdle
  /\ RestIdle

\* fetchCustomers of the mount effect: the form is given the next account
\* number, 1001 when there are no customers.
FetchCustomers(c) ==
  /\ custForm[c].customersLoading
  /\ custForm' =
       [custForm EXCEPT
          ![c] = [accountNo |->
                    IF Len(GetCustomers(customerTable)) > 0
                    THEN NextAccountNo(GetCustomers(customerTable))
                    ELSE FirstAccountNo,
                  customersLoading |-> FALSE]]
  /\ UNCHANGED <<customerTable, custPending, custResponse>>
  /\ UNCHANGED <<ledgerVars, serverVars, fullVars, balVars, formVars,
                 finVars, sigVars>>

\* fetchCustomers when the fetch fails: the form keeps its empty account
\* number and the page stops loading.
FetchCustomersFails(c) ==
  /\ custForm[c].customersLoading
  /\ custForm' = [custForm EXCEPT ![c].customersLoading = FALSE]
  /\ UNCHANGED <<customerTable, custPending, custResponse>>
  /\ UNCHANGED <<ledgerVars, serverVars, fullVars, balVars, formVars,
                 finVars, sigVars>>

\* handleSubmit up to the fetch (the button is disabled while the list
\* or a submission is loading): the form is posted as it stands.
CustHandleSubmit(c) ==
  /\ ~custForm[c].customersLoading
  /\ c \notin {r.client : r \in custPending}
  /\ custResponse[c] \in {"none", "error"}
  /\ Len(customerTable) < MaxCustomers
  /\ custPending' = custPending \cup
                      {[client |-> c, accountNo |-> custForm[c].accountNo]}
  /\ custResponse' = [custResponse EXCEPT ![c] = "none"]
  /\ UNCHANGED <<customerTable, custForm>>
  /\ UNCHANGED <<ledgerVars, serverVars, fullVars, balVars, formVars,
                 finVars, sigVars>>

\* Another client posts an account number of its own choice.
DirectCreate(accountNo) ==
  /\ DirectClient \notin {r.client : r \in custPending}
  /\ Len(customerTable) < MaxCustomers
  /\ custPending' = custPending \cup
                      {[client |-> DirectClient, accountNo |-> accountNo]}
  /\ UNCHANGED <<customerTable, custForm, custResponse>>
  /\ UNCHANGED <<ledgerVars, serverVars, fullVars, balVars, formVars,
                 finVars, sigVars>>

\* The create endpoint for one of the requests in flight:
\* prisma.customer.create, which throws when the unique index refuses the
\* row, and the response the catch block sends then.
CustomerCreateHandler(r) ==
  /\ r \in custPending
  /\ custPending' = custPending \ {r}
  /\ IF UniqueAccountNo(customerTable, r.accountNo)
     THEN /\ customerTable' =
               Append(customerTable,
                      [id |-> Len(customerTable) + 1,
                       accountNo |-> r.accountNo])
          /\ custResponse' =
               IF r.client \in Clients
               THEN [custResponse EXCEPT ![r.client] = "success"]
               ELSE custResponse
     ELSE /\ customerTable' = customerTable
          /\ custResponse' =
               IF r.client \in Clients
               THEN [custResponse EXCEPT ![r.client] = "error"]
               ELSE custResponse
  /\ UNCHANGED custForm
  /\ UNCHANGED <<ledgerVars, serverVars, fullVars, balVars, formVars,
                 finVars, sigVars>>

\* handleSubmit after data.success: the list is fetched again and the form
\* reset with the next account number.
CustHandleSuccess(c) ==
  /\ custResponse[c] = "success"
  /\ custForm' =
       [custForm EXCEPT
          ![c].accountNo = NextAccountNo(GetCustomers(customerTable))]
  /\ custResponse' = [custResponse EXCEPT ![c] = "none"]
  /\ UNCHANGED <<customerTable, custPending>>
  /\ UNCHANGED <<ledgerVars, serverVars, fullVars, balVars, formVars,
                 finVars, sigVars>>

AcctNext ==
  \/ \E c \in Clients : FetchCustomers(c)
  \/ \E c \in Clients : FetchCustomersFails(c)
  \/ \E c \in Clients : CustHandleSubmit(c)
  \/ \E accountNo \in {FirstAccountNo, OpaqueNo} : DirectCreate(accountNo)
  \/ \E r \in custPending : CustomerCreateHandler(r)
  \/ \E c \in Clients : CustHandleSuccess(c)

AcctSpec == AcctInit /\ [][AcctNext]_vars

\* -------------------------------------------------------- signature page

\* The parties that sign.
Signers == {"sales", "customer"}

\* What a SignatureCanvas holds after a stroke, as toDataURL gives it; an
\* empty canvas holds "".
Strokes == {"stroke1.png", "stroke2.png"}

\* What GET /api/voucher/:id answers for the id of the route: the voucher
\* of either type, or no voucher.
VoucherResponses(id) ==
  {[id |-> id, voucherType |-> type] : type \in VoucherTypes}
    \cup {NoVoucher}

\* salesSignRef.current or customerSignRef.current: the one SignatureCanvas
\* is rendered inside the modal with the ref of the active signature, so a
\* ref holds it while the modal is open for that party and null otherwise.
RefCurrent(who) == IF activeSignature = who THEN canvas ELSE NoCanvas

\* Faulty variant of GetSignatureData: a missing or empty canvas yields the
\* image of a blank one.
GetSignatureData_Blank(ref) ==
  IF ref = NoCanvas \/ ref = "" THEN "blank.png" ELSE ref

\* getSignatureData(ref): null without a canvas or for an empty one, the
\* PNG data URL otherwise.
GetSignatureData(ref) ==
  IF ref = NoCanvas THEN NoImage
  ELSE IF ref = "" THEN NoImage
  ELSE ref

SigInit ==
  /\ tz = 0
  /\ LedgerIdle
  /\ NoServerData
  /\ FullIdle
  /\ BalIdle
  /\ FormIdle
  /\ FinIdle
  /\ AcctIdle
  /\ sigRoute \in 1..MaxVouchers
  /\ sigVoucher = NoVoucher
  /\ sigLoading = TRUE
  /\ saving = FALSE
  /\ msg = ""
  /\ hasSalesSigned = FALSE
  /\ hasCustomerSigned = FALSE
  /\ pdfBlobUrl = NoBlob
  /\ showPdfPreview = FALSE
  /\ activeSignature = NoSignature
  /\ canvas = NoCanvas
  /\ alerted = ""
  /\ sigRequest = <<>>

\* The page below the loading and the "Voucher not found" screens.
SigRendered == ~sigLoading /\ sigVoucher # NoVoucher

\* fetchVoucher: the response's voucher (none when the fetch failed) is
\* set and loading ends.
FetchVoucher(voucher) ==
  /\ sigLoading
  /\ sigVoucher' = voucher
  /\ sigLoading' = FALSE
  /\ UNCHANGED <<sigRoute, saving, msg, hasSalesSigned, hasCustomerSigned,
                 pdfBlobUrl, showPdfPreview, activeSignature, canvas,
                 alerted, sigRequest>>
  /\ UNCHANGED <<ledgerVars, serverVars, fullVars, balVars, formVars,
                 finVars, acctVars>>

\* A click on a signature box: setActiveSignature(who) opens the modal,
\* which mounts an empty SignatureCanvas.
OpenModal(who) ==
  /\ SigRendered
  /\ activeSignature = NoSignature
  /\ activeSignature' = who
  /\ canvas' = ""
  /\ UNCHANGED <<sigRoute, sigVoucher, sigLoading, saving, msg,
                 hasSalesSigned, hasCustomerSigned, pdfBlobUrl,
                 showPdfPreview, alerted, sigRequest>>
  /\ UNCHANGED <<ledgerVars, serverVars, fullVars, balVars, formVars,
                 finVars, acctVars>>

\* A stroke on the canvas, then onEnd: handleSignatureEnd(activeSignature).
HandleSignatureEnd(stroke) ==
  /\ SigRendered
  /\ activeSignature # NoSignature
  /\ canvas' = stroke
  /\ hasSalesSigned' = (activeSignature = "sales" \/ hasSalesSigned)
  /\ hasCustomerSigned' = (activeSignature = "customer" \/ hasCustomerSigned)
  /\ UNCHANGED <<sigRoute, sigVoucher, sigLoading, saving, msg, pdfBlobUrl,
                 showPdfPreview, activeSignature, alerted, sigRequest>>
  /\ UNCHANGED <<ledgerVars, serverVars, fullVars, balVars, formVars,
                 finVars, acctVars>>

\* handleClear(who): the canvas is cleared if who's ref holds one, and the
\* flag is unset.
HandleClear(who) ==
  /\ SigRendered
  /\ canvas' = IF RefCurrent(who) # NoCanvas THEN "" ELSE canvas
  /\ hasSalesSigned' = (who # "sales" /\ hasSalesSigned)
  /\ hasCustomerSigned' = (who # "customer" /\ hasCustomerSigned)
  /\ UNCHANGED <<sigRoute, sigVoucher, sigLoading, saving, msg, pdfBlobUrl,
                 showPdfPreview, activeSignature, alerted, sigRequest>>
  /\ UNCHANGED <<ledgerVars, serverVars, fullVars, balVars, formVars,
                 finVars, acctVars>>

\* The modal's close button or a mousedown outside the modal:
\* setActiveSignature(null) unmounts the SignatureCanvas and its drawing,
\* and React sets the ref that held it to null.
CloseModal ==
  /\ SigRendered
  /\ activeSignature # NoSignature
  /\ activeSignature' = NoSignature
  /\ canvas' = NoCanvas
  /\ UNCHANGED <<sigRoute, sigVoucher, sigLoading, saving, msg,
                 hasSalesSigned, hasCustomerSigned, pdfBlobUrl,
                 showPdfPreview, alerted, sigRequest>>
  /\ UNCHANGED <<ledgerVars, serverVars, fullVars, balVars, formVars,
                 finVars, acctVars>>

\* handleSubmit up to the fetch, from the Generate PDF button, which is
\* disabled while saving or while a signed flag is unset.
SigHandleSubmit ==
  /\ SigRendered
  /\ ~saving /\ hasSalesSigned /\ hasCustomerSigned
  /\ LET salesSign == GetSignatureData(RefCurrent("sales"))
         customerSign == GetSignatureData(RefCurrent("customer"))
     IN IF ~hasSalesSigned \/ ~hasCustomerSigned
        THEN /\ alerted' = "Both signatures are required!"
             /\ UNCHANGED <<saving, msg, pdfBlobUrl, showPdfPreview,
                            sigRequest>>
        ELSE IF salesSign = NoImage \/ customerSign = NoImage
        THEN /\ alerted' = "Failed to capture signature data."
             /\ UNCHANGED <<saving, msg, pdfBlobUrl, showPdfPreview,
                            sigRequest>>
        ELSE /\ saving' = TRUE
             /\ msg' = ""
             /\ pdfBlobUrl' = NoBlob
             /\ showPdfPreview' = FALSE
             /\ sigRequest' = Append(sigRequest,
                                     [voucherId |-> sigRoute,
                                      salesSign |-> salesSign,
                                      customerSign |-> customerSign])
             /\ UNCHANGED alerted
  /\ UNCHANGED <<sigRoute, sigVoucher, sigLoading, hasSalesSigned,
                 hasCustomerSigned, activeSignature, canvas>>
  /\ UNCHANGED <<ledgerVars, serverVars, fullVars, balVars, formVars,
                 finVars, acctVars>>

\* handleSubmit after the fetch: the response says success with the PDF
\* data, or says an error, or the fetch threw; finally ends the saving.
SigHandleResponse(outcome) ==
  /\ saving
  /\ msg' = CASE outcome = "success" -> "PDF generated successfully!"
              [] outcome = "error" -> "Error: PDF generation failed"
              [] OTHER -> "Unexpected error occurred"
  /\ pdfBlobUrl' = IF outcome = "success" THEN "blob" ELSE pdfBlobUrl
  /\ showPdfPreview' = (outcome = "success" \/ showPdfPreview)
  /\ saving' = FALSE
  /\ UNCHANGED <<sigRoute, sigVoucher, sigLoading, hasSalesSigned,
                 hasCustomerSigned, activeSignature, canvas, alerted,
                 sigRequest>>
  /\ UNCHANGED <<ledgerVars, serverVars, fullVars, balVars, formVars,
                 finVars, acctVars>>

\* The fetch of handleSubmit settles one way or another.
SigFetchSettles ==
  \E outcome \in {"success", "error", "throws"} : SigHandleResponse(outcome)

\* What the user and the voucher fetch can do.  SigHandleResponse is no
\* part of it: no reachable state has a finalize request outstanding.
SigNext ==
  \/ \E voucher \in VoucherResponses(sigRoute) : FetchVoucher(voucher)
  \/ \E who \in Signers : OpenModal(who)
  \/ \E stroke \in Strokes : HandleSignatureEnd(stroke)
  \/ \E who \in Signers : HandleClear(who)
  \/ CloseModal
  \/ SigHandleSubmit

SigSpec == SigInit /\ [][SigNext]_vars

\* The voucher fetch and the finalize fetch are promises that settle.
SigLiveSpec ==
  /\ SigInit
  /\ [][SigNext]_vars
  /\ WF_vars(\E voucher \in VoucherResponses(sigRoute) : FetchVoucher(voucher))
  /\ WF_vars(SigFetchSettles)

\* ------------------------------------------------------------ properties

\* Sum of totalNet / totalKWD over the vouchers of one type.
RECURSIVE SumTotalNet(_, _)
SumTotalNet(vs, type) ==
  IF vs = <<>> THEN 0
  ELSE (IF Head(vs).voucherType = type THEN Head(vs).totalNet ELSE 0)
       + SumTotalNet(Tail(vs), type)

RECURSIVE SumTotalKWD(_, _)
SumTotalKWD(vs, type) ==
  IF vs = <<>> THEN 0
  ELSE (IF Head(vs).voucherType = type THEN Head(vs).totalKWD ELSE 0)
       + SumTotalKWD(Tail(vs), type)

\* Position in the ledger of the entry of voucher `id'.
PosOf(id) == CHOOSE k \in 1..Len(allLedgerEntries) :
               allLedgerEntries[k].voucherId = id

\* C1: once the ledger is built, the final running gold balance is the sum
\* of totalNet over the Invoice vouchers minus the sum over the Receipt
\* vouchers, and the final KWD balance the same with totalKWD, for every
\* fetched list in every order; the balances page computes the same pair.
C1_BalanceConservation ==
  ~loading =>
    /\ currentGoldBalance =
         SumTotalNet(vouchers, "INV") - SumTotalNet(vouchers, "REC")
    /\ currentKWDBalance =
         SumTotalKWD(vouchers, "INV") - SumTotalKWD(vouchers, "REC")
    /\ CalculateBalances(vouchers, tz).goldBalance =
         SumTotalNet(vouchers, "INV") - SumTotalNet(vouchers, "REC")
    /\ CalculateBalances(vouchers, tz).kwdBalance =
         SumTotalKWD(vouchers, "INV") - SumTotalKWD(vouchers, "REC")

\* A built ledger of an Invoice and a Receipt fetched out of date order,
\* with a non-zero final balance in both units.
C1_Witness ==
  /\ ~loading
  /\ Len(vouchers) = 2
  /\ vouchers[1].date > vouchers[2].date
  /\ vouchers[1].voucherType # vouchers[2].voucherType
  /\ vouchers[1].totalNet > 0 /\ vouchers[2].totalKWD > 0
  /\ currentGoldBalance # 0 /\ currentKWDBalance # 0

\* C2: every entry carries the balance after its own transaction: its
\* goldBalance is the previous entry's goldBalance (0 before the first)
\* plus its goldDebit minus its goldCredit, and likewise for KWD.
C2_PostUpdateSnapshot ==
  \A k \in 1..Len(allLedgerEntries) :
    LET e == allLedgerEntries[k]
        prevGold == IF k = 1 THEN 0 ELSE allLedgerEntries[k - 1].goldBalance
        prevKWD == IF k = 1 THEN 0 ELSE allLedgerEntries[k - 1].kwdBalance
    IN /\ e.goldBalance = prevGold + e.goldDebit - e.goldCredit
       /\ e.kwdBalance = prevKWD + e.kwdDebit - e.kwdCredit

\* A ledger whose second entry moves a non-zero balance in both units.
C2_Witness ==
  /\ Len(allLedgerEntries) = 2
  /\ allLedgerEntries[1].goldBalance # 0
  /\ allLedgerEntries[1].kwdBalance # 0
  /\ allLedgerEntries[2].goldBalance # allLedgerEntries[1].goldBalance
  /\ allLedgerEntries[2].kwdBalance # allLedgerEntries[1].kwdBalance

\* C3: the entry of an Invoice has debit = totals and credit = 0, the
\* entry of a Receipt has credit = totals and debit = 0, and no entry has a
\* non-zero debit and a non-zero credit in the same unit.
C3_DebitCreditByType ==
  ~loading =>
    /\ \A i \in 1..Len(vouchers) :
         \E k \in 1..Len(allLedgerEntries) :
           LET v == vouchers[i]
               e == allLedgerEntries[k]
           IN /\ e.voucherId = v.id
              /\ v.voucherType = "INV" =>
                   /\ e.goldDebit = v.totalNet /\ e.kwdDebit = v.totalKWD
                   /\ e.goldCredit = 0 /\ e.kwdCredit = 0
              /\ v.voucherType = "REC" =>
                   /\ e.goldCredit = v.totalNet /\ e.kwdCredit = v.totalKWD
                   /\ e.goldDebit = 0 /\ e.kwdDebit = 0
    /\ \A k \in 1..Len(allLedgerEntries) :
         /\ ~(allLedgerEntries[k].goldDebit # 0
              /\ allLedgerEntries[k].goldCredit # 0)
         /\ ~(allLedgerEntries[k].kwdDebit # 0
              /\ allLedgerEntries[k].kwdCredit # 0)

\* A built ledger holding an Invoice and a Receipt, all totals non-zero.
C3_Witness ==
  /\ ~loading
  /\ \E i, j \in 1..Len(vouchers) :
       /\ vouchers[i].voucherType = "INV" /\ vouchers[j].voucherType = "REC"
       /\ vouchers[i].totalNet > 0 /\ vouchers[i].totalKWD > 0
       /\ vouchers[j].totalNet > 0 /\ vouchers[j].totalKWD > 0

\* C4: the build emits exactly one entry per voucher (each voucher id
\* once) and consecutive entries never go back in date.
C4_OneEntryPerVoucherAscending ==
  ~loading =>
    /\ Len(allLedgerEntries) = Len(vouchers)
    /\ \A i \in 1..Len(vouchers) :
         Cardinality({k \in 1..Len(allLedgerEntries) :
                        allLedgerEntries[k].voucherId = vouchers[i].id}) = 1
    /\ \A k \in 1..(Len(allLedgerEntries) - 1) :
         allLedgerEntries[k + 1].date >= allLedgerEntries[k].date

\* A ledger built from a list fetched in descending date order, whose
\* entries fall on different days.
C4_Witness ==
  /\ ~loading
  /\ Len(vouchers) = 2
  /\ vouchers[1].date > vouchers[2].date
  /\ allLedgerEntries[1].date < allLedgerEntries[2].date

\* C5: two vouchers with the same transaction date keep, in the ledger,
\* the relative order they have in the fetched list.
C5_StableOnEqualDates ==
  ~loading =>
    \A i, j \in 1..Len(vouchers) :
      (i < j /\ vouchers[i].date = vouchers[j].date) =>
        PosOf(vouchers[i].id) < PosOf(vouchers[j].id)

\* Two vouchers of different type stamped with the same instant, so that
\* their order decides the balance shown on the first entry.
C5_Witness ==
  /\ ~loading
  /\ Len(vouchers) = 2
  /\ vouchers[1].date = vouchers[2].date
  /\ vouchers[1].voucherType # vouchers[2].voucherType
  /\ vouchers[1].totalNet > 0
  /\ allLedgerEntries[1].voucherId = vouchers[1].id

\* The balance pair shown on an entry.
BalanceOf(e) == [gold |-> e.goldBalance, kwd |-> e.kwdBalance]

\* Positions of the entries dated (by the day they show) strictly before
\* day d, and of those dated within [s, e], an unset bound being open.
EntriesBeforeDay(d) ==
  {k \in 1..Len(allLedgerEntries) : allLedgerEntries[k].date < d}
InDayRange(entry, s, e) ==
  /\ (s = NoDate \/ entry.date >= s)
  /\ (e = NoDate \/ entry.date <= e)

Max(S) == CHOOSE m \in S : \A n \in S : n <= m

\* C6: the opening balance is the running balance of the last entry dated
\* strictly before the range start, and (0,0) when there is none or the
\* start is unset; an entry dated on the range start never contributes.
C6_OpeningStrictlyBeforeStart ==
  ~loading =>
    openingBalance =
      IF dateRange.start = NoDate \/ EntriesBeforeDay(dateRange.start) = {}
      THEN [gold |-> 0, kwd |-> 0]
      ELSE BalanceOf(allLedgerEntries[Max(EntriesBeforeDay(dateRange.start))])

\* C7: the filtered entries are exactly the ledger entries dated within
\* [rangeStart, rangeEnd], both bounds inclusive, an unset bound open, in
\* ledger (ascending) order.
C7_FilterInclusive ==
  ~loading =>
    filteredLedgerEntries =
      SelectSeq(allLedgerEntries,
                LAMBDA entry : InDayRange(entry, dateRange.start, dateRange.end))

C9_PeriodReconciliation ==
  ~loading =>
    \A A, B, C \in Days :
      (A <= B /\ B < C) =>
        LET first == [start |-> A, end |-> B]
            second == [start |-> B + 1, end |-> C]
            filtered == FilterEffect(allLedgerEntries, filteredLedgerEntries,
                                     first, tz)
        IN calculateClosingBalance(allLedgerEntries, filtered, first, tz)
             = calculateOpeningBalance(allLedgerEntries, second, tz)

\* C10: balances inside the window are slices of the lifetime balance:
\* every filtered entry is an entry of the unfiltered ledger, running
\* balances included, and closing minus opening is the sum of the debits
\* minus the sum of the credits of the filtered entries, in both units.
C10_WindowIsSliceOfLifetime ==
  /\ \A k \in 1..Len(filteredLedgerEntries) :
       \E j \in 1..Len(allLedgerEntries) :
         filteredLedgerEntries[k] = allLedgerEntries[j]
  /\ periodGoldChange = totalGoldDebit - totalGoldCredit
  /\ periodKWDChange = totalKWDDebit - totalKWDCredit

\* A window that starts after a non-zero balance was built up and holds
\* an entry that changes it in both units.
C10_Witness ==
  /\ ~loading
  /\ dateRange.start # NoDate
  /\ Len(allLedgerEntries) = 2
  /\ Len(filteredLedgerEntries) = 1
  /\ filteredLedgerEntries[1] = allLedgerEntries[2]
  /\ openingBalance.gold # 0 /\ openingBalance.kwd # 0
  /\ periodGoldChange # 0 /\ periodKWDChange # 0

\* C11: an empty voucher list builds an empty ledger, and on an empty
\* ledger the opening and the closing balance are both (0,0) and no entry
\* is shown, whatever the date range.
C11_EmptyLedger ==
  (~loading /\ vouchers = <<>>) =>
    /\ allLedgerEntries = <<>>
    /\ filteredLedgerEntries = <<>>
    /\ openingBalance = [gold |-> 0, kwd |-> 0]
    /\ closingBalance = [gold |-> 0, kwd |-> 0]

\* The page after fetching an empty list, with a range the user has moved
\* away from the default month.
C11_Witness ==
  /\ ~loading
  /\ vouchers = <<>>
  /\ serverVouchers = <<>>
  /\ dateRange.start = MaxDay
  /\ dateRange.end = 1

C14_SummaryAgreesWithLedger ==
  ~loading =>
    LET b == CalculateBalances(vouchers, tz)
    IN /\ b.goldBalance = currentGoldBalance
       /\ b.kwdBalance = currentKWDBalance
       /\ b.voucherCount = Len(vouchers)
       /\ IF vouchers = <<>>
          THEN /\ b.goldBalance = 0 /\ b.kwdBalance = 0
               /\ b.voucherCount = 0
               /\ b.lastTransactionDate = NoDate
          ELSE /\ b.goldBalance =
                    allLedgerEntries[Len(allLedgerEntries)].goldBalance
               /\ b.kwdBalance =
                    allLedgerEntries[Len(allLedgerEntries)].kwdBalance
               /\ b.lastTransactionDate =
                    toLocaleDateString(
                      Max({vouchers[i].date : i \in 1..Len(vouchers)}), tz)

\* A ledger of two vouchers fetched latest first, on different local days,
\* with non-zero closing balances.
C14_Witness ==
  /\ ~loading
  /\ Len(vouchers) = 2
  /\ toLocaleDateString(vouchers[1].date, tz)
       > toLocaleDateString(vouchers[2].date, tz)
  /\ currentGoldBalance # 0
  /\ currentKWDBalance # 0

\* The fetched system-wide list without the vouchers whose accountId
\* belongs to no fetched customer.
KnownVouchers ==
  SelectSeq(allVouchers,
            LAMBDA v : \E i \in 1..Len(serverCustomers) :
                         serverCustomers[i].id = v.accountId)

WithoutCustomer(entry) == [k \in DOMAIN entry \ {"customer"} |-> entry[k]]

\* C12: on the full ledger page a voucher whose accountId matches no
\* fetched customer gets no entry and moves no running balance, and the
\* build still completes: the entries are those built from the list without
\* such vouchers, with the balances of a ledger of the remaining vouchers.
C12_UnknownCustomerSkipped ==
  (~fullLoading /\ ~fullError) =>
    /\ ledgerEntries = BuildFullLedger(KnownVouchers, serverCustomers, tz)
    /\ [k \in 1..Len(ledgerEntries) |-> WithoutCustomer(ledgerEntries[k])]
         = BuildLedger(KnownVouchers, tz)
    /\ \A k \in 1..Len(ledgerEntries) :
         \E i \in 1..Len(serverCustomers) :
           ledgerEntries[k].customer = serverCustomers[i]
    /\ Len(ledgerEntries) = Len(KnownVouchers)

\* A full ledger built from an Invoice of a missing customer dated before
\* a voucher of a known customer.
C12_Witness ==
  /\ ~fullLoading
  /\ ~fullError
  /\ Len(allVouchers) = 2
  /\ allVouchers[1].accountId = DanglingId
  /\ allVouchers[1].voucherType = "INV"
  /\ allVouchers[1].date < allVouchers[2].date
  /\ allVouchers[2].accountId \in CustomerIds
  /\ Len(ledgerEntries) = 1

\* What the fetch of the i-th customer's task met, once it has settled.
OutcomeOf(i) ==
  LET k == CHOOSE k \in 1..Len(balSettled) : balSettled[k].task = i
  IN balSettled[k].outcome

\* The summary an undisturbed task computes for a customer.
SummaryOf(customer) ==
  LET b == CalculateBalances(VouchersOfCustomer(allVouchers, customer.id), tz)
  IN [customer |-> customer, goldBalance |-> b.goldBalance,
      kwdBalance |-> b.kwdBalance,
      lastTransactionDate |-> b.lastTransactionDate,
      voucherCount |-> b.voucherCount]

\* C15: once the customers are fetched the aggregation never ends in the
\* error state; a customer whose vouchers response is not OK, or whose task
\* throws, is published with the placeholder (0, 0, no date, 0), and every
\* other customer with the summary computed from that customer's vouchers.
C15_FailureIsolated ==
  /\ balTasks # <<>> => ~balError
  /\ (balTasks # <<>> /\ balPc = "done") =>
       /\ Len(customerBalances) = Len(serverCustomers)
       /\ \A i \in 1..Len(serverCustomers) :
            customerBalances[i] =
              IF OutcomeOf(i) = "ok" THEN SummaryOf(serverCustomers[i])
              ELSE Placeholder(serverCustomers[i])

\* The page after loading, one customer's task having thrown although the
\* customer has a voucher, another customer showing a non-zero balance.
C15_Witness ==
  /\ balPc = "done"
  /\ ~balError
  /\ \E i, j \in 1..Len(customerBalances) :
       /\ OutcomeOf(i) = "throws"
       /\ VouchersOfCustomer(allVouchers, serverCustomers[i].id) # <<>>
       /\ customerBalances[i].voucherCount = 0
       /\ OutcomeOf(j) = "ok"
       /\ customerBalances[j].goldBalance # 0

\* C16: the balances are published only when every customer's task has
\* settled, in whatever order they did; what is published holds exactly one
\* summary per customer in the order of the customers list; and loading
\* ends only after the publication.
C16_PublishAfterAllInOrder ==
  /\ balPc \in {"start", "tasks"} => customerBalances = <<>>
  /\ balPc \in {"published", "done"} /\ ~balError =>
       /\ Len(balSettled) = Len(serverCustomers)
       /\ \A i \in 1..Len(balTasks) : balTasks[i].state = "fulfilled"
       /\ Len(customerBalances) = Len(serverCustomers)
       /\ \A i \in 1..Len(serverCustomers) :
            /\ customerBalances[i].customer = serverCustomers[i]
            /\ customerBalances[i] = balTasks[i].value
  /\ balLoading <=> balPc # "done"
  /\ (~balLoading /\ ~balError) =>
       Len(customerBalances) = Len(serverCustomers)

\* Balances published while loading is still on, the task of the last
\* customer of the list having settled first.
C16_Witness ==
  /\ balPc = "published"
  /\ balLoading
  /\ Len(customerBalances) = MaxCustomers
  /\ balSettled[1].task = MaxCustomers
  /\ customerBalances[1].customer = serverCustomers[1]
  /\ customerBalances[1] # customerBalances[MaxCustomers]

\* C17: after every edit of a field of a row in Invoice mode, the row's
\* netWeight is weight * purity / 999 and its kwd is weight * makingCharges;
\* netWeight is 0 when weight or purity is 0, and kwd is 0 when weight is 0
\* or makingCharges is 0 or was never entered.
C17_InvoiceRowDerived ==
  [][\A index \in 1..Len(rows), field \in DOMAIN RowInputs :
         (/\ voucherType = "INV"
          /\ Len(rows') = Len(rows)
          /\ HandleRowChange(index, field, rows'[index][field])) =>
           LET r == rows'[index]
           IN /\ r.netWeight = r.weight * r.purity * Percent
              /\ r.kwd = IF r.makingCharges = Undef THEN 0
                         ELSE r.weight * r.makingCharges
              /\ (r.weight = 0 \/ r.purity = 0) => r.netWeight = 0
              /\ (r.weight = 0 \/ r.makingCharges \in {Undef, 0})
                   => r.kwd = 0]_vars

\* An Invoice form whose row has a weight, a purity other than 999 and
\* making charges, with the derived values they give.
C17_Witness ==
  /\ voucherType = "INV"
  /\ formSteps = 3
  /\ rows[1].weight = 10
  /\ rows[1].purity = 750
  /\ rows[1].makingCharges = 3
  /\ rows[1].netWeight = 10 * 750 * Percent
  /\ rows[1].kwd = 30

\* C18: after every edit of a field of a row in Receipt mode, the row's
\* weightAfterDiscount is weight * (1 - discountPercent / 100), a
\* discountPercent never entered counting as 0, and its netWeight is
\* weightAfterDiscount * purity / 999.
C18_ReceiptRowDerived ==
  [][\A index \in 1..Len(rows), field \in DOMAIN RowInputs :
         (/\ voucherType = "REC"
          /\ Len(rows') = Len(rows)
          /\ HandleRowChange(index, field, rows'[index][field])) =>
           LET r == rows'[index]
               discount == IF r.discountPercent = Undef THEN 0
                           ELSE r.discountPercent
           IN /\ r.weightAfterDiscount = r.weight * (Percent - discount)
              /\ r.netWeight = r.weightAfterDiscount * r.purity]_vars

\* C19: in Receipt mode an edit of weight, purity, discountPercent or
\* description leaves the row's kwd as it was; in Invoice mode the kwd after
\* any edit is the computed weight * makingCharges, whatever it was before.
C19_KwdManualOnReceipt ==
  [][\A index \in 1..Len(rows), field \in DOMAIN RowInputs :
         (/\ Len(rows') = Len(rows)
          /\ HandleRowChange(index, field, rows'[index][field])) =>
           /\ (voucherType = "REC"
                /\ field \in {"weight", "purity", "discountPercent",
                               "description"})
                => rows'[index].kwd = rows[index].kwd
           /\ voucherType = "INV" =>
                rows'[index].kwd =
                  IF rows'[index].makingCharges = Undef THEN 0
                  ELSE rows'[index].weight * rows'[index].makingCharges]_vars

\* A Receipt row edited after the switch from Invoice mode (its
\* weightAfterDiscount is set) that still carries the kwd computed there.
C19_Witness ==
  /\ voucherType = "REC"
  /\ rows[1].weightAfterDiscount # Undef
  /\ rows[1].weight = 10
  /\ rows[1].makingCharges = 3
  /\ rows[1].kwd = 30

\* C20: every voucher in the vouchers table has totalNet equal to the sum
\* of its rows' netWeight and totalKWD equal to the sum of its rows' kwd,
\* whether it was posted by the form or by any other client.
C20_StoredTotalsAreRowSums ==
  \A k \in 1..Len(stored) :
    /\ stored[k].totalNet = SumRows(stored[k].rows, "netWeight")
    /\ stored[k].totalKWD = SumRows(stored[k].rows, "kwd")

\* C21: no voucher is stored whose type is not INV or REC or one of whose
\* rows lacks a description or a weight: such a request is refused.
C21_InvalidInputNotStored ==
  \A k \in 1..Len(stored) :
    /\ stored[k].voucherType \in VoucherTypes
    /\ \A i \in 1..Len(stored[k].rows) :
         /\ stored[k].rows[i].description # ""
         /\ stored[k].rows[i].weight # Undef

\* The derived fields of a row are those the formula of voucher type
\* `type' gives for the row's inputs; a weightAfterDiscount never assigned
\* shows as 0.
RowDerivedFor(row, type) ==
  IF type = "INV"
  THEN /\ row.netWeight = row.weight * row.purity * Percent
       /\ row.kwd = IF row.makingCharges = Undef THEN 0
                    ELSE row.weight * row.makingCharges
  ELSE LET discount == IF row.discountPercent = Undef THEN 0
                       ELSE row.discountPercent
           shown == IF row.weightAfterDiscount = Undef THEN 0
                    ELSE row.weightAfterDiscount
       IN /\ shown = row.weight * (Percent - discount)
          /\ row.netWeight = shown * row.purity

\* C29: when the form submits, every row's derived fields are those the
\* formula of the selected voucher type gives for the row's inputs,
\* whatever edits, additions, removals and type switches came before.
C29_SubmittedRowsDerived ==
  [][\A account \in CustomerIds :
       HandleSubmit(account) =>
         \A i \in 1..Len(rows) : RowDerivedFor(rows[i], voucherType)]_vars


\* C22: once a voucher is stored no operation changes its rows, totals,
\* type, date or customer reference; the only change is finalize
\* attaching a document URL, and a URL once attached stays as it is.
C22_VoucherImmutable ==
  [][/\ Len(stored') >= Len(stored)
     /\ \A i \in 1..Len(stored) :
          /\ [stored'[i] EXCEPT !.pdfUrl = NoUrl] =
               [stored[i] EXCEPT !.pdfUrl = NoUrl]
          /\ stored[i].pdfUrl # NoUrl =>
               stored'[i].pdfUrl = stored[i].pdfUrl]_vars

\* A voucher with a document attached was finalized again, this time
\* without an upload.
C22_Witness ==
  \E i \in 1..Len(stored) :
    /\ stored[i].pdfUrl = PdfUrl(stored[i])
    /\ finResponse.voucherId = stored[i].id
    /\ finResponse.success
    /\ finResponse.pdfUrl = NoUrl

\* C30: finalize writes pdfUrl only when the upload succeeded; when the
\* voucher or its customer is not found, the generation fails or the
\* upload fails the stored vouchers are unchanged; an upload failure after
\* a successful generation is answered with success, the document data
\* and a null pdfUrl.
C30_FinalizeOutcomes ==
  [][\A o \in FinOutcomes :
       FinalizeHandler(o) =>
         LET req == finRequest[1]
             found == FindVoucher(stored, req.voucherId)
             customerFound ==
               /\ found # {}
               /\ \A i \in found :
                    CustomerFound(serverCustomers, stored[i].accountId)
         IN /\ stored' # stored => o.upload = "ok"
            /\ ~finResponse'.success => stored' = stored
            /\ (\/ found = {}
                \/ ~customerFound
                \/ o.generation = "throws"
                \/ o.upload = "throws") => stored' = stored
            /\ (/\ customerFound
                /\ o.generation = "ok"
                /\ o.upload = "throws") =>
                 /\ finResponse'.success
                 /\ finResponse'.pdfData # NoPdf
                 /\ finResponse'.pdfData.voucherId = req.voucherId
                 /\ finResponse'.pdfUrl = NoUrl]_vars

\* A finalize whose upload failed answered with the document and no URL,
\* and the voucher has none.
C30_Witness ==
  /\ finResponse.success
  /\ finResponse.pdfData # NoPdf
  /\ finResponse.pdfUrl = NoUrl
  /\ \E i \in 1..Len(stored) :
       /\ stored[i].id = finResponse.voucherId
       /\ stored[i].pdfUrl = NoUrl


C24_LookupFailureIsFatal ==
  [][(/\ loading
      /\ ~loading'
      /\ \/ \A i \in 1..Len(customerTable) :
              customerTable[i].accountNo # routeId
         \/ customerRes' # 200) =>
       /\ customerRes' \in {404, 500}
       /\ (\A i \in 1..Len(customerTable) :
             customerTable[i].accountNo # routeId) /\ customerRes' # 500 =>
            customerRes' = 404
       /\ ledgerError' # NoError
       /\ voucherFetches' = voucherFetches
       /\ vouchers' = vouchers
       /\ allLedgerEntries' = allLedgerEntries
       /\ filteredLedgerEntries' = filteredLedgerEntries]_vars

\* After a ledger was shown the page was opened for an account number
\* without customer and ended in its error state.
C24_Witness ==
  /\ ~loading
  /\ customerRes = 404
  /\ ledgerError = "Customer not found"
  /\ voucherFetches = 1
  /\ builds = 2
  /\ \A i \in 1..Len(customerTable) : customerTable[i].accountNo # routeId


\* C25: on the full ledger page the current gold and KWD balances shown
\* for the selected date range are the running balances of the
\* chronologically last entry of the range (zero when the range is
\* empty), whatever column and direction the table is sorted by.
C25_ClosingIsLastInRange ==
  ~fullLoading =>
    \A sorted \in filteredAndSortedEntries :
      CurrentBalance(sorted) =
        CurrentBalance(FilterEntries(ledgerEntries, fullDateRange, tz))


\* C26: when every voucher is of a customer of the table and every
\* per-customer fetch succeeded, the published gold balances add up to the
\* running gold balance of the last entry of the full ledger built from
\* all vouchers, and the KWD balances to its running KWD balance.
C26_TotalsAgree ==
  (/\ balPc \in {"published", "done"}
   /\ ~balError
   /\ \A i \in 1..Len(balTasks) : OutcomeOf(i) = "ok"
   /\ \A i \in 1..Len(allVouchers) :
        \E j \in 1..Len(serverCustomers) :
          serverCustomers[j].id = allVouchers[i].accountId
   /\ ~fullLoading) =>
    /\ totalGoldBalance = CurrentBalance(ledgerEntries).gold
    /\ totalKWDBalance = CurrentBalance(ledgerEntries).kwd

\* Both pages are loaded, every fetch succeeded, and customers with an
\* Invoice and with a Receipt leave a total that is neither's balance.
C26_Witness ==
  /\ balPc = "done"
  /\ ~fullLoading
  /\ \A i \in 1..Len(balTasks) : OutcomeOf(i) = "ok"
  /\ Len(ledgerEntries) = Len(allVouchers)
  /\ \E i, j \in 1..Len(customerBalances) :
       /\ customerBalances[i].goldBalance > 0
       /\ customerBalances[j].goldBalance < 0
  /\ totalGoldBalance # 0
  /\ totalGoldBalance = CurrentBalance(ledgerEntries).gold


\* C27: the signature page sends a finalize request only while both
\* signed flags are set and with the drawn image of both signatures; a
\* clear unsets the party's flag, and a flag is set again only by a
\* stroke of that party.
C27_FinalizeNeedsBothSignatures ==
  [][/\ sigRequest' # sigRequest =>
          /\ hasSalesSigned /\ hasCustomerSigned
          /\ Len(sigRequest') = Len(sigRequest) + 1
          /\ sigRequest'[Len(sigRequest')].salesSign \in Strokes
          /\ sigRequest'[Len(sigRequest')].customerSign \in Strokes
     /\ HandleClear("sales") => ~hasSalesSigned'
     /\ HandleClear("customer") => ~hasCustomerSigned'
     /\ (~hasSalesSigned /\ hasSalesSigned') =>
          activeSignature = "sales" /\ canvas' \in Strokes
     /\ (~hasCustomerSigned /\ hasCustomerSigned') =>
          activeSignature = "customer" /\ canvas' \in Strokes]_vars

\* Generate PDF was pressed with both flags set after a signature had
\* been cleared and drawn again; no image could be taken and nothing was
\* sent.
C27_Witness ==
  /\ hasSalesSigned
  /\ hasCustomerSigned
  /\ activeSignature = "customer"
  /\ canvas = "stroke2.png"
  /\ alerted = "Failed to capture signature data."
  /\ sigRequest = <<>>

\* C28: with the voucher loaded, both signatures drawn in the modal and
\* the modal closed, pressing Generate PDF sends a finalize request with
\* both images and sets saving, and saving always returns to false.
C28_GenerateSendsFinalize ==
  /\ [][(/\ SigRendered
         /\ hasSalesSigned
         /\ hasCustomerSigned
         /\ activeSignature = NoSignature
         /\ SigHandleSubmit) =>
          /\ saving'
          /\ Len(sigRequest') = Len(sigRequest) + 1
          /\ sigRequest'[Len(sigRequest')].voucherId = sigRoute
          /\ sigRequest'[Len(sigRequest')].salesSign \in Strokes
          /\ sigRequest'[Len(sigRequest')].customerSign \in Strokes]_vars
  /\ (saving ~> ~saving)

====
